---------------------------- MODULE Spec2Model ----------------------------
(***************************************************************************)
(* Model of the resilient API-access layer of ncspot (src/spotify_api.rs): *)
(* WebApi::api_with_retry (the retry engine), WebApi::update_token and the *)
(* refresh task it spawns (the refresh coordinator), the worker that       *)
(* answers RequestToken commands, and readers of the shared token.         *)
(*                                                                         *)
(* Threads of control:                                                     *)
(*   - "api":   one thread running one api_with_retry call;                *)
(*   - "bg":    another holder of the same WebApi calling update_token;    *)
(*   - tasks:   the spawn_blocking closures started by update_token;       *)
(*   - worker:  the owner of the receiving end of the command channel;     *)
(*   - reader:  a thread that snapshots token and token_expiration.        *)
(*                                                                         *)
(* Spec runs the "api" thread with its refresh tasks, the worker and the   *)
(* clock; SpecShared runs the "bg" callers, their concurrent refresh       *)
(* tasks, the worker, the reader and the clock.                            *)
(*                                                                         *)
(* SpecAuth runs start-up authentication (src/authentication.rs): one call *)
(* of authenticate with the token cache file it finds, the accounts        *)
(* service, the callback listener redirect_uri_web_server                  *)
(* (src/redirect_uri.rs) with the connections it accepts, the manual flow  *)
(* and get_librespot_credentials.  Request texts are sequences of atoms so *)
(* that handle_connection splits them as the code does.                    *)
(* SpecAuthFair is SpecAuth with weak fairness of the steps authenticate   *)
(* takes by itself.                                                        *)
(*                                                                         *)
(* SpecSetup runs the setup wizard of src/client_config.rs with the lines  *)
(* the user types.  SpecPages pulls the paginated results of               *)
(* current_user_playlist and user_playlist_tracks to their end; the        *)
(* paginator itself (crate::ui::pagination) follows its documented         *)
(* contract, the fetch_page closures follow the code.                      *)
(* SpecOverwrite runs WebApi::overwrite_playlist request by request.       *)
(* SpecLocks runs update_token, its refresh tasks and a reader at the      *)
(* grain of the acquisitions of the token mutex and the token_expiration   *)
(* and worker_channel locks.                                               *)
(*                                                                         *)
(* Time is counted in ticks, TicksPerSec ticks to the second, because      *)
(* chrono instants are finer than the whole seconds num_seconds() returns. *)
(* u64 arithmetic is modelled at a width of WordBits bits.                 *)
(***************************************************************************)
EXTENDS Integers, Sequences, FiniteSets, TLC

\* ------------------------------------------------------------------ bounds
\* Ticks to the second (resolution of Utc::now()).
TicksPerSec == 2
\* Width in bits of the model's u64.
WordBits == 8
\* Refresh tasks one run may spawn.
MaxTasks == 2
\* Number of times the clock is advanced.
MaxAdvances == 2
\* Pages one paginated result fetches.
MaxFetches == 8

\* ------------------------------------------------------- program constants
MAX_RETRIES == 3
MAX_BACKOFF_SECS == 60
\* 60 * 5, the renewal margin of update_token, in seconds.
RENEW_MARGIN_SECS == 300
\* ChronoDuration::hours(1) of with_authenticated_client, in seconds.
AUTH_CLIENT_LIFETIME_SECS == 3600
\* client_config.rs
DEFAULT_PORT == 8888
EXPECTED_LEN == 32
\* MAX_RETRIES of get_client_key_from_input.
KEY_MAX_RETRIES == 5
\* u16::MAX
U16_MAX == 65535
\* MAX_LIMIT of current_user_playlist and of user_playlist_tracks.
PLAYLISTS_MAX_LIMIT == 50
TRACKS_MAX_LIMIT == 100
\* "we can only send 100 tracks per request" (overwrite_playlist)
CHUNK_SIZE == 100

VARIABLES
    now,               \* Utc::now(), in ticks
    advances,          \* how often the clock was advanced
    overflow_checks,   \* build profile: TRUE = overflow panics, FALSE = wraps
    token,             \* api.token: Arc<Mutex<Option<Token>>>
    token_expiration,  \* token_expiration: Arc<RwLock<DateTime<Utc>>>, in ticks
    exp_src,           \* which refresh task wrote token_expiration (0: constructor)
    worker_channel,    \* worker_channel: "None" or "Some"
    rx_open,           \* the worker still holds the receiving end
    cmdq,              \* RequestToken commands in flight (reply channel = task id)
    reply,             \* reply channel of each task
    task,              \* the spawn_blocking closure of each update_token
    api,               \* the thread inside api_with_retry
    bg_pc,             \* the second caller of update_token
    ut,                \* record of the last update_token call
    rd,                \* the reader's snapshot
    cache_file,        \* the token cache file (.spotify_token_cache.json)
    auth,              \* the thread inside authentication::authenticate
    lst,               \* redirect_uri_web_server: the callback listener
    client_config,     \* ClientConfig and the thread in its setup wizard
    pg,                \* a paginated result (ApiResult) and its service
    ow,                \* the thread in WebApi::overwrite_playlist
    lk                 \* the locks of the WebApi and the threads at them

\* The state of the WebApi and its threads, and the state of start-up
\* authentication.
apivars == <<now, advances, overflow_checks, token, token_expiration, exp_src,
             worker_channel, rx_open, cmdq, reply, task, api, bg_pc, ut, rd>>
authvars == <<cache_file, auth, lst>>
cfgvars == <<client_config, pg, ow, lk>>

vars == <<now, advances, overflow_checks, token, token_expiration, exp_src,
          worker_channel, rx_open, cmdq, reply, task, api, bg_pc, ut, rd,
          cache_file, auth, lst, client_config, pg, ow,
          lk>>

\* ----------------------------------------------------------------- helpers
Min(a, b) == IF a <= b THEN a ELSE b

Secs(s) == s * TicksPerSec

\* u64::MAX + 1 at the model's width.
Modulus == 2 ^ WordBits

TaskIds == 1 .. MaxTasks

\* chrono::Duration::num_seconds: whole seconds, truncated toward zero.
num_seconds(delta) ==
    IF delta >= 0 THEN delta \div TicksPerSec ELSE -((-delta) \div TicksPerSec)


\* ------------------------------------------------------------ shared token
\* Option<Token>: None, or Some(Token { access_token, expires_in, .. }).
NoToken == [some |-> FALSE, access_token |-> 0, expires_in |-> 0]

\* The token of the client handed to with_authenticated_client.
InstalledToken ==
    [some |-> TRUE, access_token |-> 0,
     expires_in |-> Secs(AUTH_CLIENT_LIFETIME_SECS)]

\* expires_in of the tokens the worker mints, in seconds.
ReplyLifetimeSecs == {600, 3600}

\* *api_token.lock() = Some(Token { access_token, expires_in, .. })
TokenFromReply(r) ==
    [some |-> TRUE, access_token |-> r.access_token, expires_in |-> r.expires_in]

\* Utc::now() + ChronoDuration::from_std(token.expires_in)
ExpirationFromReply(t, r) == t + r.expires_in

\* ---------------------------------------------------------------- channels
\* A reply channel (std::sync::mpsc) of one RequestToken command:
\* "unused", "pending" (sender alive, nothing sent), "some" (Some(token)
\* sent), "none" (None sent), "closed" (sender dropped, nothing sent).
NoReply == [st |-> "unused", access_token |-> 0, expires_in |-> 0]
PendingReply == [st |-> "pending", access_token |-> 0, expires_in |-> 0]
AbsentReply == [st |-> "none", access_token |-> 0, expires_in |-> 0]
ClosedReply == [st |-> "closed", access_token |-> 0, expires_in |-> 0]
SomeReply(t, e) == [st |-> "some", access_token |-> t, expires_in |-> e]

IdleTask == [pc |-> "unspawned", ok |-> FALSE, expires_in |-> 0]

Spawned == {t \in TaskIds : task[t].pc # "unspawned"}
NextTask == Cardinality(Spawned) + 1

\* -------------------------------------------------------- api_with_retry
\* What one invocation of the wrapped call returns.
RetryableServerErrors == 502 .. 504
OtherStatuses == {400, 404, 500}

\* The Retry-After header of a 429 response: absent, or present with a text
\* that is not a number (value -1), or present with a decimal number.
NoHeader == [present |-> FALSE, value |-> 0]
HeaderNumbers == {2, 61, Modulus - 1, Modulus}
Headers ==
    {NoHeader} \cup {[present |-> TRUE, value |-> v] : v \in {-1} \cup HeaderNumbers}

\* .header("Retry-After").and_then(|v| v.parse::<u64>().ok()).unwrap_or(1)
RetryAfter(h) ==
    IF h.present /\ h.value >= 0 /\ h.value < Modulus THEN h.value ELSE 1

\* rand::rng().random_range(0..3)
Jitters == 0 .. 2

\* 2u64.pow(n) and 1 << n, for n below the word width.
RECURSIVE Pow2(_)
Pow2(n) == IF n = 0 THEN 1 ELSE 2 * Pow2(n - 1)

\* retry_after + jitter, in u64.
BaseDelay(r, j) == r + j

\* base_delay * (1 << attempt), in u64, before wrapping.
ScaledDelay(r, j, a) == (BaseDelay(r, j) % Modulus) * Pow2(a)

\* The 429 arithmetic leaves the u64 range.
Overflows429(r, j, a) ==
    BaseDelay(r, j) >= Modulus \/ ScaledDelay(r, j, a) >= Modulus

\* Mutant: the rate-limit backoff is not capped.
RateLimitBackoff_NoCap(r, j, a) == ScaledDelay(r, j, a) % Modulus

\* (base_delay * (1 << attempt)).min(MAX_BACKOFF_SECS), wrapping arithmetic.
RateLimitBackoff(r, j, a) == Min(ScaledDelay(r, j, a) % Modulus, MAX_BACKOFF_SECS)

\* Mutant: the server-error backoff grows linearly.
ServerErrorBackoff_Linear(a) == Min(a + 1, MAX_BACKOFF_SECS)

\* (2u64.pow(attempt)).min(MAX_BACKOFF_SECS)
ServerErrorBackoff(a) == Min(Pow2(a) % Modulus, MAX_BACKOFF_SECS)

NoResult == [some |-> FALSE, v |-> 0]
NoCall == [kind |-> "none", status |-> 0, a |-> 0, r |-> 0, j |-> 0, b |-> 0]

\* Mutant: the loop admits one attempt too many.
LoopHead_OffByOne(a) == IF a <= MAX_RETRIES THEN "call" ELSE "done"

\* while attempt < MAX_RETRIES { .. }; after the loop the function returns None.
LoopHead(a) == IF a < MAX_RETRIES THEN "call" ELSE "done"

ApiInit ==
    [pc |-> LoopHead(0), attempt |-> 0, last_error |-> "None",
     result |-> NoResult, handle |-> 0, calls |-> 0, last |-> NoCall,
     joined |-> "none", n401 |-> 0, sent |-> 0, sleeps |-> 0, slept |-> 0]

NoUpdate ==
    [called |-> FALSE, band |-> "none", ret |-> "none", sent |-> 0,
     wired |-> FALSE]
NoSnapshot == [pc |-> "idle", access_token |-> 0, exp_src |-> 0]

\* The threads, other than the one in api_with_retry, that call update_token.
BgCallers == {"bg1", "bg2"}

\* ------------------------------------------------------ token cache file
\* The file at get_token_cache_path(): missing, present but not readable as
\* a string, readable but not a serialized Token, or a serialized Token
\* (for which Token::is_expired() answers `expired`).
AbsentFile == [st |-> "absent", access_token |-> 0, expired |-> FALSE]
UnreadableFile == [st |-> "unreadable", access_token |-> 0, expired |-> FALSE]
UnparseableFile == [st |-> "unparseable", access_token |-> 0, expired |-> FALSE]
TokenFile(t, e) == [st |-> "token", access_token |-> t, expired |-> e]

\* The cache files authenticate may find at start-up.
CacheFiles ==
    {AbsentFile, UnreadableFile, UnparseableFile} \cup
    {TokenFile(0, e) : e \in BOOLEAN}

\* ------------------------------------------------- text of an HTTP request
\* A text is a sequence of atoms: "SP" (a blank), "CRLF" (a line end), ":"
\* (a colon), "NUL" (zero bytes) and words without blanks or colons.
Whitespace == {"SP", "CRLF"}

\* The index of the first atom of s that is in seps, or 0.
RECURSIVE FirstIn(_, _, _)
FirstIn(s, seps, i) ==
    IF i > Len(s) THEN 0
    ELSE IF s[i] \in seps THEN i
    ELSE FirstIn(s, seps, i + 1)

\* str::split(pattern): the pieces between separators, empty ones included.
RECURSIVE Split(_, _)
Split(s, seps) ==
    LET i == FirstIn(s, seps, 1) IN
    IF i = 0 THEN <<s>>
    ELSE <<SubSeq(s, 1, i - 1)>> \o Split(SubSeq(s, i + 1, Len(s)), seps)

\* str::split_whitespace(): the maximal runs without whitespace.
split_whitespace(s) == SelectSeq(Split(s, Whitespace), LAMBDA w : w # <<>>)

\* str::lines(): the pieces between line ends, without a final empty one.
lines(s) ==
    LET ls == Split(s, {"CRLF"}) IN
    IF ls[Len(ls)] = <<>> THEN SubSeq(ls, 1, Len(ls) - 1) ELSE ls

\* str::to_lowercase(), atom by atom.
to_lowercase(s) ==
    [i \in 1 .. Len(s) |->
        CASE s[i] = "Host" -> "host"
          [] s[i] = "HOST" -> "host"
          [] OTHER -> s[i]]

\* line.to_lowercase().starts_with("host:")
IsHostLine(line) ==
    /\ Len(line) >= 2
    /\ to_lowercase(line)[1] = "host"
    /\ line[2] = ":"

\* str::trim(): without leading and trailing whitespace.
RECURSIVE trim(_)
trim(s) ==
    IF s = <<>> THEN s
    ELSE IF s[1] \in Whitespace THEN trim(Tail(s))
    ELSE IF s[Len(s)] \in Whitespace THEN trim(SubSeq(s, 1, Len(s) - 1))
    ELSE s

\* The first element of a sequence of lines that is a Host header, or <<>>
\* when there is none (Iterator::find).
RECURSIVE FindHostLine(_)
FindHostLine(ls) ==
    IF ls = <<>> THEN <<>>
    ELSE IF IsHostLine(ls[1]) THEN <<ls[1]>>
    ELSE FindHostLine(Tail(ls))

\* unwrap_or("127.0.0.1:8888")
DefaultHost == <<"127.0.0.1", ":", "8888">>

\* request.lines().find(..).and_then(|line| line.split(':').nth(1))
\*     .map(|h| h.trim()).unwrap_or("127.0.0.1:8888")
HostOf(request) ==
    LET found == FindHostLine(lines(request)) IN
    IF found = <<>> THEN DefaultHost
    ELSE LET pieces == Split(found[1], {":"}) IN
         IF Len(pieces) >= 2 THEN trim(pieces[2]) ELSE DefaultHost

\* let mut buffer = [0; 2048]; stream.read(&mut buffer);
\* String::from_utf8_lossy(&buffer): the text is the whole buffer, the bytes
\* received followed by the zero bytes never written (requests are shorter
\* than the buffer).
BufferText(received) == received \o <<"NUL">>

\* format!("http://{}{}", host, path)
FullUrl(host, path) == <<"http://">> \o host \o path

NoUrl == [some |-> FALSE, url |-> <<>>, answer |-> "none"]

\* redirect_uri::handle_connection after a successful read: Some(full_url)
\* and the 200 page when the text has more than one token, else None and the
\* 400 answer.
handle_connection(received) ==
    LET request == BufferText(received)
        split == split_whitespace(request)
    IN  IF Len(split) > 1
        THEN [some |-> TRUE, url |-> FullUrl(HostOf(request), split[2]),
              answer |-> "200 OK"]
        ELSE [some |-> FALSE, url |-> <<>>, answer |-> "400 Bad Request"]

\* ------------------------------------------------- requests of the browser
\* What a client sends: a method or nothing, a request target or nothing
\* (""), the value of its Host header or no header (<<>>), and whether the
\* request line is ended.
Paths == {"/callback?code=ABC123", "/favicon.ico"}
HostValues == {<<"127.0.0.1", ":", "8888">>, <<"localhost">>}

Requests ==
    {r \in [method : BOOLEAN, path : Paths \cup {""},
            host : HostValues \cup {<<>>}, eol : BOOLEAN] :
        /\ r.path # "" => r.method /\ r.eol
        /\ r.host # <<>> => r.method /\ r.eol}

NoRequest == [method |-> FALSE, path |-> "", host |-> <<>>, eol |-> FALSE]

\* The bytes of request r on the wire.
RequestText(r) ==
    (IF r.method THEN <<"GET">> ELSE <<>>)
    \o (IF r.path # "" THEN <<"SP", r.path, "SP", "HTTP/1.1">> ELSE <<>>)
    \o (IF r.eol THEN <<"CRLF">> ELSE <<>>)
    \o (IF r.host # <<>> THEN <<"Host", ":", "SP">> \o r.host \o <<"CRLF">>
        ELSE <<>>)
    \o (IF r.eol THEN <<"CRLF">> ELSE <<>>)

\* rspotify's parse_response_code(url): the `code` query parameter.
parse_response_code(url) ==
    \E i \in 1 .. Len(url) : url[i] = "/callback?code=ABC123"

\* ---------------------------------------------------------------- listener
\* redirect_uri_web_server: not running; blocked in listener.incoming(); or
\* returned Ok(url) / Err(err).  `answers` are the responses written to the
\* accepted connections, `last` is the request of the last one.
ListenerIdle ==
    [pc |-> "idle", port |-> 0, ok |-> FALSE, url |-> <<>>, err |-> "",
     accepted |-> 0, answers |-> <<>>, last |-> NoRequest]

\* ------------------------------------------------------------ authenticate
\* The thread in authentication::authenticate, with what it did so far.
AuthStart ==
    [pc |-> "start", redirect_uri |-> <<>>, cached |-> "none",
     token |-> FALSE,
     access_token |-> 0, minted |-> 0,
     refreshes |-> 0, refresh_ok |-> FALSE,
     flows |-> 0, urls |-> 0, listeners |-> 0, manual |-> 0,
     exchanges |-> 0, exchange_ok |-> FALSE,
     saves |-> 0, written |-> 0, net |-> FALSE, librespot |-> "none",
     err |-> ""]

\* No authenticate call is running (the WebApi is already in service).
AuthReturned == [AuthStart EXCEPT !.pc = "idle"]

\* ------------------------------------------------------------ ClientConfig
\* port: Option<u16>
NoPort == [some |-> FALSE, v |-> 0]
SomePort(p) == [some |-> TRUE, v |-> p]

\* The ports a loaded client.yml may hold.
ConfiguredPorts == {NoPort, SomePort(DEFAULT_PORT), SomePort(9000)}

\* Mutant: the configured port is ignored.
get_port_AlwaysDefault(c) == DEFAULT_PORT

\* self.port.unwrap_or(DEFAULT_PORT)
get_port(c) == IF c.port.some THEN c.port.v ELSE DEFAULT_PORT

\* format!("http://127.0.0.1:{}/callback", self.get_port())
get_redirect_uri(c) ==
    <<"http://", "127.0.0.1", ":", ToString(get_port(c)), "/callback">>

\* A key is a sequence of characters; "U+00E9" is a character of two bytes,
\* every other one has one byte.
HexDigits ==
    {"0", "1", "2", "3", "4", "5", "6", "7", "8", "9",
     "a", "b", "c", "d", "e", "f", "A", "B", "C", "D", "E", "F"}
OtherChars == {"g", "z", "-", "SP", "U+00E9"}

Utf8Len(c) == IF c = "U+00E9" THEN 2 ELSE 1

\* str::len(): the length in bytes.
RECURSIVE len(_)
len(key) == IF key = <<>> THEN 0 ELSE Utf8Len(key[1]) + len(Tail(key))

\* char::is_ascii_hexdigit
is_ascii_hexdigit(c) == c \in HexDigits

KeyOk == [ok |-> TRUE, err |-> ""]
NoVerdict == [ok |-> FALSE, err |-> "none"]
KeyErr(e) == [ok |-> FALSE, err |-> e]

\* Mutant: the characters are not looked at.
validate_client_key_LengthOnly(key) ==
    IF key = <<>> THEN KeyErr("Key cannot be empty")
    ELSE IF len(key) # EXPECTED_LEN THEN KeyErr("Invalid length")
    ELSE KeyOk

\* ClientConfig::validate_client_key
validate_client_key(key) ==
    IF key = <<>> THEN KeyErr("Key cannot be empty")
    ELSE IF len(key) # EXPECTED_LEN THEN KeyErr("Invalid length")
    ELSE IF ~ \A i \in 1 .. Len(key) : is_ascii_hexdigit(key[i])
         THEN KeyErr("Invalid character found")
    ELSE KeyOk

\* The keys of the tests: valid_key, short_key, bad_key.
ValidTestKey ==
    <<"6", "5", "b", "7", "0", "8", "0", "7", "3", "f", "c", "0", "4", "8",
      "0", "e", "a", "9", "2", "a", "0", "7", "7", "2", "3", "3", "c", "a",
      "8", "7", "b", "d">>
ShortTestKey == SubSeq(ValidTestKey, 1, 16)
BadTestKey == SubSeq(ValidTestKey, 1, 30) \o <<"z", "z">>

\* n times the character fill, with the character bad at position at
\* (at = 0: nowhere).
MadeKey(n, fill, at, bad) == [i \in 1 .. n |-> IF i = at THEN bad ELSE fill]

\* What the user may type as a key, before the end of the line.
TypedKeys ==
    {ValidTestKey, ShortTestKey, BadTestKey, <<"SP">> \o ValidTestKey} \cup
    {MadeKey(n, fill, 0, fill) :
        n \in {0, 1, EXPECTED_LEN - 1, EXPECTED_LEN, EXPECTED_LEN + 1},
        fill \in {"0", "a", "F"}} \cup
    {MadeKey(n, "a", at, bad) :
        n \in {EXPECTED_LEN - 2, EXPECTED_LEN - 1, EXPECTED_LEN},
        at \in {1, EXPECTED_LEN - 2}, bad \in OtherChars}

\* What the user may type as a port: a number, or -1 for anything else.
TypedPorts == {-1, 0, 9000, U16_MAX, U16_MAX + 1}

\* port_input.trim().parse::<u16>().unwrap_or(DEFAULT_PORT)
ParsedPort(typed) == IF typed \in 0 .. U16_MAX THEN typed ELSE DEFAULT_PORT

\* A ClientConfig after load_config read client.yml with port p.
LoadedConfig(p) ==
    [pc |-> "loaded", port |-> p, client_id |-> ValidTestKey,
     client_secret |-> ValidTestKey, num_retries |-> 0,
     last_key |-> <<>>, last |-> NoVerdict, err |-> ""]

\* ClientConfig::new() at the start of run_setup_wizard.
WizardStart ==
    [pc |-> "client_id", port |-> NoPort, client_id |-> <<>>,
     client_secret |-> <<>>, num_retries |-> 0,
     last_key |-> <<>>, last |-> NoVerdict, err |-> ""]

\* --------------------------------------------------------- paginated calls
\* The remote collection has n items, numbered 0 .. n - 1; it reports
\* n + inflate as its total; the items in `bad` are tracks without a track
\* payload or marked unknown.

\* The page the service returns for (limit, offset): at most limit items
\* from offset on, its offset and the total.
ServicePage(n, inflate, limit, offset) ==
    [offset |-> offset,
     total |-> n + inflate,
     items |-> [i \in 1 .. (IF n - offset < 0 THEN 0 ELSE Min(limit, n - offset))
                   |-> offset + i - 1]]

\* fetch_page of current_user_playlist, the call succeeding:
\* Ok(page) => Ok(ApiPage { offset, total, items: .. map(|sp| sp.into()) })
PlaylistsPage(n, inflate, offset) ==
    LET page == ServicePage(n, inflate, PLAYLISTS_MAX_LIMIT, offset)
    IN  [offset |-> page.offset, total |-> page.total, items |-> page.items]

\* Mutant: the page is requested with half the limit.
TracksPage_HalfLimit(n, inflate, bad, offset) ==
    LET page == ServicePage(n, inflate, TRACKS_MAX_LIMIT \div 2, offset)
        kept == SelectSeq(page.items, LAMBDA id : id \notin bad)
    IN  [offset |-> page.offset, total |-> page.total,
         items |-> [index \in 1 .. Len(kept) |->
                      [id |-> kept[index],
                       list_index |-> page.offset + (index - 1)]]]

\* fetch_page of user_playlist_tracks, the call succeeding: the items
\* without a usable track are dropped, the others become Playables with
\* list_index = page.offset + index.
TracksPage(n, inflate, bad, offset) ==
    LET page == ServicePage(n, inflate, TRACKS_MAX_LIMIT, offset)
        kept == SelectSeq(page.items, LAMBDA id : id \notin bad)
    IN  [offset |-> page.offset, total |-> page.total,
         items |-> [index \in 1 .. Len(kept) |->
                      [id |-> kept[index],
                       list_index |-> page.offset + (index - 1)]]]

\* delete_tracks: the positions sent with the ids of the playables,
\* playables.iter().map(|playable| [playable.list_index() as u32])
positions(playables) ==
    [k \in 1 .. Len(playables) |-> playables[k].list_index]

\* The ApiPage fetch_page(offset) returns when api_with_retry returns Some.
FetchPage(p, offset) ==
    IF p.endpoint = "playlists" THEN PlaylistsPage(p.n, p.inflate, offset)
    ELSE TracksPage(p.n, p.inflate, p.bad, offset)

\* No paginated result exists.
NoPages ==
    [pc |-> "idle", endpoint |-> "none", n |-> 0, inflate |-> 0, bad |-> {},
     limit |-> 0, offset |-> 0, total |-> 0, items |-> <<>>, calls |-> <<>>,
     failed |-> FALSE]

\* ApiResult::new(MAX_LIMIT, Arc::new(fetch_page)) over a collection.
NewPaginator(endpoint, n, inflate, bad) ==
    [NoPages EXCEPT !.pc = "fetch", !.endpoint = endpoint, !.n = n,
                    !.inflate = inflate, !.bad = bad,
                    !.limit = IF endpoint = "playlists"
                              THEN PLAYLISTS_MAX_LIMIT ELSE TRACKS_MAX_LIMIT]

\* The collections paginated in the model.
ItemCounts == {0, 1, 50, 99, 100, 250}
Inflations == {0, 7}
BadItems(n) == {{}} \cup (IF n > 0 THEN {{0}, {n - 1}} ELSE {})

Paginators ==
    {NewPaginator("playlists", n, inflate, {}) :
        n \in ItemCounts, inflate \in Inflations} \cup
    UNION {{NewPaginator("tracks", n, inflate, bad) : bad \in BadItems(n)} :
        n \in ItemCounts, inflate \in Inflations}

\* ------------------------------------------------------ overwrite_playlist
\* The tracks handed to overwrite_playlist are numbered 1 .. n; the ones in
\* `noid` are Playables whose conversion into a PlayableId yields None.
NoRemainder == [some |-> FALSE, v |-> <<>>]
SomeRemainder(v) == [some |-> TRUE, v |-> v]

\* tracks after tracks.split_off(CHUNK_SIZE), when it is called.
first_chunk(tracks) ==
    IF Len(tracks) > CHUNK_SIZE THEN SubSeq(tracks, 1, CHUNK_SIZE) ELSE tracks

\* Mutant: a list of exactly one chunk is split too.
split_remainder_AtLimit(tracks) ==
    IF Len(tracks) >= CHUNK_SIZE
    THEN SomeRemainder(SubSeq(tracks, CHUNK_SIZE + 1, Len(tracks)))
    ELSE NoRemainder

\* if tracks.len() > 100 { Some(tracks.split_off(100)) } else { None }
split_remainder(tracks) ==
    IF Len(tracks) > CHUNK_SIZE
    THEN SomeRemainder(SubSeq(tracks, CHUNK_SIZE + 1, Len(tracks)))
    ELSE NoRemainder

\* tracks.iter().filter_map(|playable| playable.into()).collect()
playable_ids(tracks, noid) == SelectSeq(tracks, LAMBDA t : t \notin noid)

\* A request of overwrite_playlist: one api_with_retry call around
\* playlist_replace_items or playlist_add_items, and whether it returned
\* Some.
Request(kind, ids, ok) == [kind |-> kind, ids |-> ids, ok |-> ok]

\* overwrite_playlist is not running.
NoOverwrite ==
    [pc |-> "idle", n |-> 0, noid |-> {}, remainder |-> NoRemainder,
     requests |-> <<>>]

\* overwrite_playlist(id, tracks) at its entry.
NewOverwrite(n, noid) ==
    [pc |-> "replace", n |-> n, noid |-> noid, remainder |-> NoRemainder,
     requests |-> <<>>]

TrackCounts == {0, 1, 99, 100, 101, 199, 200, 201, 250, 300, 301}
NoIds(n) == {{}} \cup (IF n > 0 THEN {{1}, {n}, {1, n}} ELSE {})

\* ------------------------------------------------------------------ locks
\* The threads that use the locks of one WebApi and its clones: callers of
\* update_token, the refresh tasks they spawn, and a reader of the token
\* and its expiry.
LockCallers == {"c1", "c2"}
LockTasks == {"t1", "t2"}
LockReaders == {"rd"}
LockThreads == LockCallers \cup LockTasks \cup LockReaders

\* token: Mutex (holder or "free"); token_expiration: RwLock (writer or
\* "free", and the set of readers); worker_channel: RwLock, only ever read.
FreeLocks ==
    [pc |-> [th \in LockThreads |->
               IF th \in LockTasks THEN "unspawned" ELSE "idle"],
     token |-> "free", expiration_w |-> "free", expiration_r |-> {},
     channel_r |-> {}]

\* The locks are not looked at.
NoLocks == [FreeLocks EXCEPT !.pc = [th \in LockThreads |-> "off"]]

\* The refresh task the next update_token spawns, "none" when both run.
NextLockTask ==
    IF lk.pc["t1"] = "unspawned" THEN "t1"
    ELSE IF lk.pc["t2"] = "unspawned" THEN "t2"
    ELSE "none"

\* ------------------------------------------------------------------- Init
\* WebApi::default(): no token, token_expiration = Utc::now().
\* WebApi::with_authenticated_client(api): the client's token,
\* token_expiration = Utc::now() + 1 hour.  Both leave worker_channel None.
Init ==
    /\ now = 0
    /\ advances = 0
    /\ overflow_checks \in BOOLEAN
    /\ \E ctor \in {"default", "with_authenticated_client"} :
          /\ token = IF ctor = "default" THEN NoToken ELSE InstalledToken
          /\ token_expiration =
                IF ctor = "default" THEN now
                ELSE now + Secs(AUTH_CLIENT_LIFETIME_SECS)
          /\ cache_file =
                IF ctor = "default" THEN AbsentFile
                ELSE TokenFile(InstalledToken.access_token, FALSE)
    /\ exp_src = 0
    /\ worker_channel = "None"
    /\ rx_open = TRUE
    /\ cmdq = <<>>
    /\ reply = [t \in TaskIds |-> NoReply]
    /\ task = [t \in TaskIds |-> IdleTask]
    /\ api = ApiInit
    /\ bg_pc = [c \in BgCallers |-> "run"]
    /\ ut = NoUpdate
    /\ rd = NoSnapshot
    /\ auth = AuthReturned
    /\ lst = ListenerIdle
    /\ client_config = LoadedConfig(NoPort)
    /\ pg = NoPages
    /\ ow = NoOverwrite
    /\ lk = NoLocks

\* ---------------------------------------------------------- update_token
\* let delta = *token_expiration - now, as update_token sees it: already
\* expired, at most the margin ahead, less than one second beyond the
\* margin, or at least one full second beyond it.
DeltaBand(delta) ==
    CASE delta < 0 -> "expired"
      [] delta >= 0 /\ delta <= Secs(RENEW_MARGIN_SECS) -> "within"
      [] delta > Secs(RENEW_MARGIN_SECS) /\ delta < Secs(RENEW_MARGIN_SECS + 1) ->
            "fraction"
      [] OTHER -> "beyond"

\* Mutant: the comparison with the margin is not strict.
RenewalNotNeeded_AtMargin(expiration, t) ==
    num_seconds(expiration - t) >= RENEW_MARGIN_SECS

\* delta.num_seconds() > 60 * 5: the token is valid long enough, no renewal.
RenewalNotNeeded(expiration, t) ==
    num_seconds(expiration - t) > RENEW_MARGIN_SECS

\* if let Some(channel) = self.worker_channel.read().unwrap().as_ref():
\* channel.send(cmd).unwrap() succeeds while the receiver is alive.
ChannelWired == worker_channel = "Some" /\ rx_open

\* Mutant: a missing worker channel is reported as "no refresh".
UpdateTokenReturn_NoPanic ==
    IF RenewalNotNeeded(token_expiration, now) THEN "None"
    ELSE IF ChannelWired THEN "Some"
    ELSE "None"

\* What update_token does in the current state: return None, send the
\* request and return the task's handle, or panic.
UpdateTokenReturn ==
    IF RenewalNotNeeded(token_expiration, now) THEN "None"
    ELSE IF ChannelWired THEN "Some"
    ELSE "panic"

\* channel.send(WorkerCommand::RequestToken(token_tx)) and spawn_blocking of
\* the closure that waits on token_rx.
SendRequestToken ==
    /\ NextTask \in TaskIds
    /\ cmdq' = Append(cmdq, NextTask)
    /\ reply' = [reply EXCEPT ![NextTask] = PendingReply]
    /\ task' = [task EXCEPT ![NextTask] =
                   [pc |-> "recv", ok |-> FALSE, expires_in |-> 0]]

\* WebApi::update_token; `ut` records what the call saw and did.
UpdateToken ==
    /\ IF UpdateTokenReturn = "Some"
       THEN SendRequestToken
       ELSE UNCHANGED <<cmdq, reply, task>>
    /\ ut' = [called |-> TRUE,
              band |-> DeltaBand(token_expiration - now),
              ret |-> UpdateTokenReturn,
              sent |-> Len(cmdq') - Len(cmdq),
              wired |-> ChannelWired]

\* ------------------------------------------------------- the refresh task
\* Ok(Some(token)) => *api_token.lock().unwrap() = Some(Token { .. })
InstallToken(t) ==
    /\ token' = TokenFromReply(reply[t])
    /\ task' = [task EXCEPT ![t].pc = "write_expiration",
                            ![t].ok = TRUE,
                            ![t].expires_in = reply[t].expires_in]
    /\ UNCHANGED <<token_expiration, exp_src>>

\* Mutant: a failed refresh throws the installed token away.
RefreshFailed_ClearsToken(t) ==
    /\ task' = [task EXCEPT ![t].pc = "done"]
    /\ token' = NoToken
    /\ UNCHANGED <<token_expiration, exp_src>>

\* _ => error!("Failed to update token")
RefreshFailed(t) ==
    /\ task' = [task EXCEPT ![t].pc = "done"]
    /\ UNCHANGED <<token, token_expiration, exp_src>>

\* Mutant: recv() does not return when the sender is dropped.
TaskRecv_BlocksOnClosed(t) ==
    /\ task[t].pc = "recv"
    /\ reply[t].st \in {"some", "none"}
    /\ IF reply[t].st = "some" THEN InstallToken(t) ELSE RefreshFailed(t)
    /\ UNCHANGED <<authvars, cfgvars>>
    /\ UNCHANGED <<now, advances, overflow_checks, worker_channel, rx_open,
                   cmdq, reply, api, bg_pc, ut, rd>>

\* match token_rx.recv(): the closure wakes up when the worker has sent a
\* value or dropped the sender.
TaskRecv(t) ==
    /\ task[t].pc = "recv"
    /\ reply[t].st \in {"some", "none", "closed"}
    /\ IF reply[t].st = "some" THEN InstallToken(t) ELSE RefreshFailed(t)
    /\ UNCHANGED <<authvars, cfgvars>>
    /\ UNCHANGED <<now, advances, overflow_checks, worker_channel, rx_open,
                   cmdq, reply, api, bg_pc, ut, rd>>

\* *api_token_expiration.write().unwrap() = Utc::now() + expires_in
TaskWriteExpiration(t) ==
    /\ task[t].pc = "write_expiration"
    /\ token_expiration' = ExpirationFromReply(now, task[t])
    /\ exp_src' = t
    /\ task' = [task EXCEPT ![t].pc = "done"]
    /\ UNCHANGED <<authvars, cfgvars>>
    /\ UNCHANGED <<now, advances, overflow_checks, token, worker_channel,
                   rx_open, cmdq, reply, api, bg_pc, ut, rd>>

\* ------------------------------------------------------------- the worker
\* The worker takes the next RequestToken and answers on its reply channel
\* with Some(token), with None, or drops the sender without sending.
WorkerReply(lifetimes) ==
    /\ rx_open
    /\ cmdq # <<>>
    /\ LET t == Head(cmdq) IN
          \E r \in {SomeReply(t, Secs(e)) : e \in lifetimes}
                     \cup {AbsentReply, ClosedReply} :
              reply' = [reply EXCEPT ![t] = r]
    /\ cmdq' = Tail(cmdq)
    /\ UNCHANGED <<authvars, cfgvars>>
    /\ UNCHANGED <<now, advances, overflow_checks, token, token_expiration,
                   exp_src, worker_channel, rx_open, task, api, bg_pc, ut, rd>>

\* The worker ends: the receiver is dropped, and with it the commands still
\* queued and their reply senders.
WorkerExit ==
    /\ rx_open
    /\ rx_open' = FALSE
    /\ reply' = [t \in TaskIds |->
                    IF \E i \in 1 .. Len(cmdq) : cmdq[i] = t
                    THEN ClosedReply ELSE reply[t]]
    /\ cmdq' = <<>>
    /\ UNCHANGED <<authvars, cfgvars>>
    /\ UNCHANGED <<now, advances, overflow_checks, token, token_expiration,
                   exp_src, worker_channel, task, api, bg_pc, ut, rd>>

\* WebApi::set_worker_channel
SetWorkerChannel ==
    /\ worker_channel = "None"
    /\ worker_channel' = "Some"
    /\ UNCHANGED <<authvars, cfgvars>>
    /\ UNCHANGED <<now, advances, overflow_checks, token, token_expiration,
                   exp_src, rx_open, cmdq, reply, task, api, bg_pc, ut, rd>>

\* -------------------------------------------------------- api_with_retry
\* let result = api_call(&self.api): one more invocation, at attempt api.attempt.
Invoked(kind, status, r, j, b) ==
    [api EXCEPT !.calls = @ + 1,
                !.joined = "none",
                !.slept = 0,
                !.last = [kind |-> kind, status |-> status, a |-> api.attempt,
                          r |-> r, j |-> j, b |-> b]]

\* break; .. None
ReturnNone(rec, err) ==
    [rec EXCEPT !.pc = "done", !.last_error = err, !.result = NoResult]

\* attempt += 1; continue
NextAttempt(rec) ==
    [rec EXCEPT !.attempt = @ + 1, !.pc = LoopHead(rec.attempt + 1)]

\* Ok(v) => return Some(v).  The value is tagged with the invocation that
\* produced it.
ApiCallOk ==
    /\ api.pc = "call"
    /\ api' = [Invoked("Ok", 200, 0, 0, 0) EXCEPT
                  !.pc = "done", !.result = [some |-> TRUE, v |-> api.calls + 1]]
    /\ UNCHANGED <<authvars, cfgvars>>
    /\ UNCHANGED <<now, advances, overflow_checks, token, token_expiration,
                   exp_src, worker_channel, rx_open, cmdq, reply, task, bg_pc,
                   ut, rd>>

\* 429 => backoff computed from Retry-After, the jitter and the attempt.
RateLimitedArm(h, j) ==
    LET r == RetryAfter(h)
        a == api.attempt
    IN  IF overflow_checks /\ Overflows429(r, j, a)
        THEN [Invoked("Status", 429, r, j, 0) EXCEPT !.pc = "panic"]
        ELSE [Invoked("Status", 429, r, j, RateLimitBackoff(r, j, a)) EXCEPT
                 !.pc = "sleep"]

ApiCall429(h, j) ==
    /\ api.pc = "call"
    /\ api' = RateLimitedArm(h, j)
    /\ UNCHANGED <<authvars, cfgvars>>
    /\ UNCHANGED <<now, advances, overflow_checks, token, token_expiration,
                   exp_src, worker_channel, rx_open, cmdq, reply, task, bg_pc,
                   ut, rd>>

\* 502..=504 => backoff = 2^attempt, capped
ServerErrorArm(s) ==
    [Invoked("Status", s, 0, 0, ServerErrorBackoff(api.attempt)) EXCEPT
        !.pc = "sleep"]

\* Mutant: a server error asks for a new token before it backs off.
ApiCall5xx_Refreshes(s) ==
    /\ api.pc = "call"
    /\ UpdateToken
    /\ api' = ServerErrorArm(s)
    /\ UNCHANGED <<authvars, cfgvars>>
    /\ UNCHANGED <<now, advances, overflow_checks, token, token_expiration,
                   exp_src, worker_channel, rx_open, bg_pc, rd>>

ApiCall5xx(s) ==
    /\ api.pc = "call"
    /\ api' = ServerErrorArm(s)
    /\ UNCHANGED <<authvars, cfgvars>>
    /\ UNCHANGED <<now, advances, overflow_checks, token, token_expiration,
                   exp_src, worker_channel, rx_open, cmdq, reply, task, bg_pc,
                   ut, rd>>

\* thread::sleep(Duration::from_secs(backoff)); attempt += 1;
\* last_error = Some(..); continue
AfterSleep ==
    [NextAttempt(api) EXCEPT
        !.sleeps = @ + 1,
        !.slept = api.last.b,
        !.last_error = IF api.last.status = 429 THEN "Rate limited"
                       ELSE "Server error"]

ApiSleep ==
    /\ api.pc = "sleep"
    /\ api' = AfterSleep
    /\ UNCHANGED <<authvars, cfgvars>>
    /\ UNCHANGED <<now, advances, overflow_checks, token, token_expiration,
                   exp_src, worker_channel, rx_open, cmdq, reply, task, bg_pc,
                   ut, rd>>

\* Mutant: a 401 is retried also when update_token started no refresh.
UnauthorizedArm_RetriesWithoutRefresh(ret) ==
    LET rec == [Invoked("Status", 401, 0, 0, 0) EXCEPT !.n401 = @ + 1]
    IN  CASE ret = "Some" ->
               [rec EXCEPT !.pc = "wait", !.handle = NextTask, !.sent = @ + 1]
          [] ret = "None" -> NextAttempt(rec)
          [] OTHER -> [rec EXCEPT !.pc = "panic"]

\* 401 => if let Some(handle) = self.update_token() { block_on(handle) .. }
\*        last_error = Some("Token refresh failed"); break
UnauthorizedArm(ret) ==
    LET rec == [Invoked("Status", 401, 0, 0, 0) EXCEPT !.n401 = @ + 1]
    IN  CASE ret = "Some" ->
               [rec EXCEPT !.pc = "wait", !.handle = NextTask, !.sent = @ + 1]
          [] ret = "None" -> ReturnNone(rec, "Token refresh failed")
          [] OTHER -> [rec EXCEPT !.pc = "panic"]

ApiCall401 ==
    /\ api.pc = "call"
    /\ UpdateToken
    /\ api' = UnauthorizedArm(UpdateTokenReturn)
    /\ UNCHANGED <<authvars, cfgvars>>
    /\ UNCHANGED <<now, advances, overflow_checks, token, token_expiration,
                   exp_src, worker_channel, rx_open, bg_pc, rd>>

\* ASYNC_RUNTIME.get().unwrap().block_on(handle).ok(); attempt += 1; continue
AfterJoin(ok) ==
    [NextAttempt(api) EXCEPT !.joined = IF ok THEN "ok" ELSE "failed"]

\* Mutant: the handle is not awaited.
ApiJoin_NoWait ==
    /\ api.pc = "wait"
    /\ api' = AfterJoin(task[api.handle].ok)
    /\ UNCHANGED <<authvars, cfgvars>>
    /\ UNCHANGED <<now, advances, overflow_checks, token, token_expiration,
                   exp_src, worker_channel, rx_open, cmdq, reply, task, bg_pc,
                   ut, rd>>

ApiJoin ==
    /\ api.pc = "wait"
    /\ task[api.handle].pc = "done"
    /\ api' = AfterJoin(task[api.handle].ok)
    /\ UNCHANGED <<authvars, cfgvars>>
    /\ UNCHANGED <<now, advances, overflow_checks, token, token_expiration,
                   exp_src, worker_channel, rx_open, cmdq, reply, task, bg_pc,
                   ut, rd>>

\* Mutant: an unclassified failure is retried like a server error.
FatalArm_Retries(kind, status) ==
    [Invoked(kind, status, 0, 0, 1) EXCEPT !.pc = "sleep"]

\* status => break; HttpError other than StatusCode => break; Err(e) => break
FatalArm(kind, status) ==
    ReturnNone(Invoked(kind, status, 0, 0, 0),
               CASE kind = "Status" -> "HTTP error"
                 [] kind = "Http" -> "Unknown HTTP error"
                 [] OTHER -> "API error")

ApiCallFatal(kind, status) ==
    /\ api.pc = "call"
    /\ api' = FatalArm(kind, status)
    /\ UNCHANGED <<authvars, cfgvars>>
    /\ UNCHANGED <<now, advances, overflow_checks, token, token_expiration,
                   exp_src, worker_channel, rx_open, cmdq, reply, task, bg_pc,
                   ut, rd>>

\* ------------------------------------------------- the other threads, time
\* Another holder of a clone of the WebApi (the clones share token and
\* token_expiration) calls update_token and drops the handle.
BgUpdateToken(c) ==
    /\ bg_pc[c] = "run"
    /\ UpdateToken
    /\ bg_pc' = [bg_pc EXCEPT ![c] =
                     IF UpdateTokenReturn = "panic" THEN "panic" ELSE "run"]
    /\ UNCHANGED <<authvars, cfgvars>>
    /\ UNCHANGED <<now, advances, overflow_checks, token, token_expiration,
                   exp_src, worker_channel, rx_open, api, rd>>

\* A reader takes the token mutex and the token_expiration read lock and
\* copies both values.
ReaderSnapshot ==
    /\ rd.pc = "idle"
    /\ rd' = [pc |-> "done", access_token |-> token.access_token,
              exp_src |-> exp_src]
    /\ UNCHANGED <<authvars, cfgvars>>
    /\ UNCHANGED <<now, advances, overflow_checks, token, token_expiration,
                   exp_src, worker_channel, rx_open, cmdq, reply, task, api,
                   bg_pc, ut>>

\* Time passes.
ClockSteps == {1, Secs(3300) - 1}

Advance(d) ==
    /\ advances < MaxAdvances
    /\ advances' = advances + 1
    /\ now' = now + d
    /\ UNCHANGED <<authvars, cfgvars>>
    /\ UNCHANGED <<overflow_checks, token, token_expiration, exp_src,
                   worker_channel, rx_open, cmdq, reply, task, api, bg_pc, ut,
                   rd>>

\* ------------------------------------------------------------------- Next
\* One api_with_retry call, the refresh tasks it starts, the worker and time.
Next ==
    \/ ApiCallOk
    \/ \E h \in Headers, j \in Jitters : ApiCall429(h, j)
    \/ \E s \in RetryableServerErrors : ApiCall5xx(s)
    \/ ApiCall401
    \/ ApiJoin
    \/ ApiSleep
    \/ \E s \in OtherStatuses : ApiCallFatal("Status", s)
    \/ \E k \in {"Http", "Client"} : ApiCallFatal(k, 0)
    \/ \E t \in TaskIds : TaskRecv(t)
    \/ \E t \in TaskIds : TaskWriteExpiration(t)
    \/ WorkerReply(ReplyLifetimeSecs)
    \/ WorkerExit
    \/ SetWorkerChannel
    \/ \E d \in ClockSteps : Advance(d)

Spec == Init /\ [][Next]_vars

\* Several threads sharing token and token_expiration: callers of
\* update_token, the refresh tasks they start, the worker, a reader and time.
NextShared ==
    \/ \E c \in BgCallers : BgUpdateToken(c)
    \/ \E t \in TaskIds : TaskRecv(t)
    \/ \E t \in TaskIds : TaskWriteExpiration(t)
    \/ WorkerReply({600})
    \/ WorkerExit
    \/ SetWorkerChannel
    \/ ReaderSnapshot
    \/ \E d \in ClockSteps : Advance(d)

SpecShared == Init /\ [][NextShared]_vars

\* ------------------------------------------------- redirect_uri_web_server
\* Connections one listener accepts.
MaxConns == 3

\* TcpListener::bind(&addr).map_err(|e| format!("Failed to bind to port ..
ListenerBind(ok) ==
    /\ lst.pc = "bind"
    /\ lst' = IF ok THEN [lst EXCEPT !.pc = "accept"]
              ELSE [lst EXCEPT !.pc = "returned", !.ok = FALSE,
                               !.err = "Failed to bind to port"]
    /\ UNCHANGED <<cache_file, auth>>
    /\ UNCHANGED <<apivars, cfgvars>>

\* Ok(stream) of listener.incoming() and handle_connection(stream) with a
\* read that succeeds: return Ok(url) or go on with the next connection.
ListenerAccept(r) ==
    /\ lst.pc = "accept"
    /\ lst.accepted < MaxConns
    /\ LET hc == handle_connection(RequestText(r)) IN
       lst' = [lst EXCEPT !.accepted = @ + 1,
                          !.answers = Append(@, hc.answer),
                          !.last = r,
                          !.pc = IF hc.some THEN "returned" ELSE "accept",
                          !.ok = hc.some,
                          !.url = hc.url]
    /\ UNCHANGED <<cache_file, auth>>
    /\ UNCHANGED <<apivars, cfgvars>>

\* Ok(stream) and stream.read(&mut buffer).ok()? with a read that fails:
\* handle_connection returns None without writing an answer.
ListenerReadError ==
    /\ lst.pc = "accept"
    /\ lst.accepted < MaxConns
    /\ lst' = [lst EXCEPT !.accepted = @ + 1,
                          !.answers = Append(@, NoUrl.answer),
                          !.last = NoRequest]
    /\ UNCHANGED <<cache_file, auth>>
    /\ UNCHANGED <<apivars, cfgvars>>

\* Err(e) => return Err(format!("Connection error: {}", e))
ListenerAcceptError ==
    /\ lst.pc = "accept"
    /\ lst' = [lst EXCEPT !.pc = "returned", !.ok = FALSE,
                          !.err = "Connection error"]
    /\ UNCHANGED <<cache_file, auth>>
    /\ UNCHANGED <<apivars, cfgvars>>

\* ------------------------------------------------------------ authenticate
\* Err(..)? of a step of authenticate: the call returns the error.
AuthFailed(rec, e) == [rec EXCEPT !.pc = "failed", !.err = e]

\* save_token_to_file(&spotify)?: the token is Some, so fs::write is called;
\* w tells whether it succeeds.  The thread's record after it.
AfterSave(rec, w) ==
    IF w THEN [rec EXCEPT !.saves = @ + 1, !.written = @ + 1,
                          !.pc = "librespot"]
    ELSE AuthFailed([rec EXCEPT !.saves = @ + 1], "Write error")

\* fs::write(&path, token_json): the file after the call.
FileAfterSave(rec, w) ==
    IF w THEN TokenFile(rec.access_token, FALSE) ELSE cache_file

\* The accounts service answers a refresh or an exchange with a new token.
Minted(rec) ==
    [rec EXCEPT !.token = TRUE, !.access_token = rec.minted + 1,
                !.minted = @ + 1]

\* create_rspotify_client: the OAuth client of this run, with the redirect
\* URI of the configuration.
WithClient(rec) ==
    [rec EXCEPT !.redirect_uri = get_redirect_uri(client_config)]

\* Mutant: a cached token is refreshed whether expired or not.
AuthLoad_RefreshesValid ==
    /\ auth.pc = "start"
    /\ auth' =
          IF cache_file.st = "token"
          THEN [WithClient(auth) EXCEPT !.token = TRUE,
                       !.access_token = cache_file.access_token,
                            !.cached = IF cache_file.expired THEN "expired"
                                       ELSE "valid",
                            !.pc = "refresh"]
          ELSE [WithClient(auth) EXCEPT !.cached = cache_file.st, !.pc = "oauth"]
    /\ UNCHANGED <<cache_file, lst>>
    /\ UNCHANGED <<apivars, cfgvars>>

\* Mutant: a cache file that cannot be read or parsed ends authenticate.
AuthLoad_FatalCache ==
    /\ auth.pc = "start"
    /\ auth' =
          IF cache_file.st = "token"
          THEN [WithClient(auth) EXCEPT !.token = TRUE,
                       !.access_token = cache_file.access_token,
                            !.cached = IF cache_file.expired THEN "expired"
                                       ELSE "valid",
                            !.pc = IF cache_file.expired THEN "refresh"
                                   ELSE "librespot"]
          ELSE IF cache_file.st = "absent"
          THEN [WithClient(auth) EXCEPT !.cached = cache_file.st, !.pc = "oauth"]
          ELSE AuthFailed([WithClient(auth) EXCEPT !.cached = cache_file.st],
                          "Parse error")
    /\ UNCHANGED <<cache_file, lst>>
    /\ UNCHANGED <<apivars, cfgvars>>

\* match load_token_from_file(&spotify): what the start of authenticate
\* makes of the cache file, up to its first call to the accounts service.
AuthLoad ==
    /\ auth.pc = "start"
    /\ auth' =
          IF cache_file.st = "token"
          THEN [WithClient(auth) EXCEPT !.token = TRUE,
                       !.access_token = cache_file.access_token,
                            !.cached = IF cache_file.expired THEN "expired"
                                       ELSE "valid",
                            !.pc = IF cache_file.expired THEN "refresh"
                                   ELSE "librespot"]
          ELSE [WithClient(auth) EXCEPT !.cached = cache_file.st, !.pc = "oauth"]
    /\ UNCHANGED <<cache_file, lst>>
    /\ UNCHANGED <<apivars, cfgvars>>

\* Mutant: a refresh that fails is tried once more.
AuthRefresh_Again(ok, w) ==
    /\ auth.pc = "refresh"
    /\ IF ok
       THEN /\ auth' = AfterSave(Minted([auth EXCEPT !.refreshes = @ + 1,
                                                     !.refresh_ok = TRUE,
                                                     !.net = TRUE]), w)
            /\ cache_file' = FileAfterSave(Minted(auth), w)
       ELSE /\ auth' = [auth EXCEPT !.refreshes = @ + 1, !.net = TRUE,
                                    !.pc = IF auth.refreshes = 0 THEN "refresh"
                                           ELSE "oauth"]
            /\ UNCHANGED cache_file
    /\ UNCHANGED lst
    /\ UNCHANGED <<apivars, cfgvars>>

\* authenticate, token.is_expired(): spotify.refresh_token() is Ok, then
\* save_token_to_file(&spotify)? and needs_auth = false; or Err and
\* needs_auth = true.
AuthRefresh(ok, w) ==
    /\ auth.pc = "refresh"
    /\ IF ok
       THEN /\ auth' = AfterSave(Minted([auth EXCEPT !.refreshes = @ + 1,
                                                     !.refresh_ok = TRUE,
                                                     !.net = TRUE]), w)
            /\ cache_file' = FileAfterSave(Minted(auth), w)
       ELSE /\ auth' = [auth EXCEPT !.refreshes = @ + 1, !.net = TRUE,
                                    !.pc = "oauth"]
            /\ UNCHANGED cache_file
    /\ UNCHANGED lst
    /\ UNCHANGED <<apivars, cfgvars>>

\* perform_oauth_flow up to the call of redirect_uri_web_server(port):
\* get_authorize_url(false) (url_ok), the URL is printed and opened.
OAuthBegin(url_ok) ==
    /\ auth.pc = "oauth"
    /\ IF url_ok
       THEN /\ auth' = [auth EXCEPT !.flows = @ + 1, !.urls = @ + 1,
                                    !.listeners = @ + 1, !.pc = "listen"]
            /\ lst' = [ListenerIdle EXCEPT !.pc = "bind",
                                            !.port = get_port(client_config)]
       ELSE /\ auth' = AuthFailed([auth EXCEPT !.flows = @ + 1], "Failed to get auth URL")
            /\ UNCHANGED lst
    /\ UNCHANGED cache_file
    /\ UNCHANGED <<apivars, cfgvars>>

\* Mutant: an error of the listener is an error of the flow.
OAuthCallback_ListenerFatal ==
    /\ auth.pc = "listen"
    /\ lst.pc = "returned"
    /\ auth' =
          IF lst.ok
          THEN IF parse_response_code(lst.url)
               THEN [auth EXCEPT !.pc = "exchange"]
               ELSE AuthFailed(auth,
                      "Failed to parse authorization code from callback URL")
          ELSE AuthFailed(auth, lst.err)
    /\ UNCHANGED <<cache_file, lst>>
    /\ UNCHANGED <<apivars, cfgvars>>

\* match redirect_uri_web_server(port): Ok(url) with a code goes on to the
\* exchange, Ok(url) without one is an error, Err(e) enters manual_auth_flow.
OAuthCallback ==
    /\ auth.pc = "listen"
    /\ lst.pc = "returned"
    /\ auth' =
          IF lst.ok
          THEN IF parse_response_code(lst.url)
               THEN [auth EXCEPT !.pc = "exchange"]
               ELSE AuthFailed(auth,
                      "Failed to parse authorization code from callback URL")
          ELSE [auth EXCEPT !.manual = @ + 1, !.pc = "manual"]
    /\ UNCHANGED <<cache_file, lst>>
    /\ UNCHANGED <<apivars, cfgvars>>

\* What the user may paste.
PastedLines ==
    {FullUrl(DefaultHost, <<p>>) : p \in Paths}

\* manual_auth_flow up to the exchange: get_authorize_url(false) (url_ok),
\* the URL is printed, one line is read from stdin (read_ok) and parsed.
ManualInput(url_ok, read_ok, line) ==
    /\ auth.pc = "manual"
    /\ auth' =
          IF ~url_ok THEN AuthFailed(auth, "Failed to get auth URL")
          ELSE IF ~read_ok
               THEN AuthFailed([auth EXCEPT !.urls = @ + 1], "Failed to read input")
          ELSE IF parse_response_code(line)
               THEN [auth EXCEPT !.urls = @ + 1, !.pc = "exchange"]
          ELSE AuthFailed([auth EXCEPT !.urls = @ + 1],
                     "Failed to parse authorization code from input URL")
    /\ UNCHANGED <<cache_file, lst>>
    /\ UNCHANGED <<apivars, cfgvars>>

\* Mutant: an exchange that fails sends the user to the manual flow.
AuthExchange_FallsBack(ok, w) ==
    /\ auth.pc = "exchange"
    /\ IF ok
       THEN /\ auth' = AfterSave(Minted([auth EXCEPT !.exchanges = @ + 1,
                                                     !.exchange_ok = TRUE,
                                                     !.net = TRUE]), w)
            /\ cache_file' = FileAfterSave(Minted(auth), w)
       ELSE /\ auth' = [auth EXCEPT !.exchanges = @ + 1, !.net = TRUE,
                                    !.manual = @ + 1, !.pc = "manual"]
            /\ UNCHANGED cache_file
    /\ UNCHANGED lst
    /\ UNCHANGED <<apivars, cfgvars>>

\* spotify.request_token(&code).map_err(..)? and save_token_to_file(spotify)?
\* of perform_oauth_flow and of manual_auth_flow.
AuthExchange(ok, w) ==
    /\ auth.pc = "exchange"
    /\ IF ok
       THEN /\ auth' = AfterSave(Minted([auth EXCEPT !.exchanges = @ + 1,
                                                     !.exchange_ok = TRUE,
                                                     !.net = TRUE]), w)
            /\ cache_file' = FileAfterSave(Minted(auth), w)
       ELSE /\ auth' = AuthFailed([auth EXCEPT !.exchanges = @ + 1,
                                               !.net = TRUE], "Token request failed")
            /\ UNCHANGED cache_file
    /\ UNCHANGED lst
    /\ UNCHANGED <<apivars, cfgvars>>

\* get_librespot_credentials: Cache::new(..).expect(..) (cache_ok), the
\* cached credentials (has_cached) tested over the network with
\* Spotify::test_credentials (test_ok), else create_librespot_credentials,
\* the OAuth access-token flow of librespot_oauth (create_ok).
LibrespotCredentials(cache_ok, has_cached, test_ok, create_ok) ==
    /\ auth.pc = "librespot"
    /\ auth' =
          IF ~cache_ok THEN [auth EXCEPT !.pc = "panic"]
          ELSE IF has_cached /\ test_ok
               THEN [auth EXCEPT !.net = TRUE, !.librespot = "tested",
                                 !.pc = "done"]
          ELSE IF create_ok
               THEN [auth EXCEPT !.net = TRUE, !.librespot = "oauth",
                                 !.pc = "done"]
          ELSE AuthFailed([auth EXCEPT !.net = TRUE, !.librespot = "oauth"],
                          "OAuth error")
    /\ UNCHANGED <<cache_file, lst>>
    /\ UNCHANGED <<apivars, cfgvars>>

\* ---------------------------------------------------------------- SpecAuth
\* One call of authenticate at start-up, before the WebApi is in service,
\* with the cache file it finds, the accounts service, the listener, the
\* browser's connections and the user's input.
InitAuth ==
    /\ now = 0
    /\ advances = 0
    /\ overflow_checks = FALSE
    /\ token = NoToken
    /\ token_expiration = now
    /\ exp_src = 0
    /\ worker_channel = "None"
    /\ rx_open = TRUE
    /\ cmdq = <<>>
    /\ reply = [t \in TaskIds |-> NoReply]
    /\ task = [t \in TaskIds |-> IdleTask]
    /\ api = ApiInit
    /\ bg_pc = [c \in BgCallers |-> "run"]
    /\ ut = NoUpdate
    /\ rd = NoSnapshot
    /\ cache_file \in CacheFiles
    /\ auth = AuthStart
    /\ lst = ListenerIdle
    /\ client_config \in {LoadedConfig(p) : p \in ConfiguredPorts}
    /\ pg = NoPages
    /\ ow = NoOverwrite
    /\ lk = NoLocks

NextAuth ==
    \/ AuthLoad
    \/ \E ok \in BOOLEAN, w \in BOOLEAN : AuthRefresh(ok, w)
    \/ \E url_ok \in BOOLEAN : OAuthBegin(url_ok)
    \/ \E ok \in BOOLEAN : ListenerBind(ok)
    \/ \E r \in Requests : ListenerAccept(r)
    \/ ListenerReadError
    \/ ListenerAcceptError
    \/ OAuthCallback
    \/ \E url_ok \in BOOLEAN, read_ok \in BOOLEAN, line \in PastedLines :
          ManualInput(url_ok, read_ok, line)
    \/ \E ok \in BOOLEAN, w \in BOOLEAN : AuthExchange(ok, w)
    \/ \E cache_ok \in BOOLEAN, has_cached \in BOOLEAN, test_ok \in BOOLEAN,
          create_ok \in BOOLEAN :
          LibrespotCredentials(cache_ok, has_cached, test_ok, create_ok)

SpecAuth == InitAuth /\ [][NextAuth]_vars

\* The steps authenticate takes by itself; a connection to the listener
\* (ListenerAccept, ListenerReadError, ListenerAcceptError) is a step of the
\* outside, which may never come.
AuthProgram ==
    \/ AuthLoad
    \/ \E ok \in BOOLEAN, w \in BOOLEAN : AuthRefresh(ok, w)
    \/ \E url_ok \in BOOLEAN : OAuthBegin(url_ok)
    \/ \E ok \in BOOLEAN : ListenerBind(ok)
    \/ OAuthCallback
    \/ \E url_ok \in BOOLEAN, read_ok \in BOOLEAN, line \in PastedLines :
          ManualInput(url_ok, read_ok, line)
    \/ \E ok \in BOOLEAN, w \in BOOLEAN : AuthExchange(ok, w)
    \/ \E cache_ok \in BOOLEAN, has_cached \in BOOLEAN, test_ok \in BOOLEAN,
          create_ok \in BOOLEAN :
          LibrespotCredentials(cache_ok, has_cached, test_ok, create_ok)

\* authenticate on a thread that is always scheduled and whose calls to the
\* accounts service and reads of the terminal all return.
SpecAuthFair == InitAuth /\ [][NextAuth]_vars /\ WF_vars(AuthProgram)

\* ----------------------------------------------------------- SpecPages
\* Mutant: an empty page does not stop the paginator.
PaginatorAfter_IgnoresEmpty(p, fetched, page) ==
    IF ~fetched THEN [p EXCEPT !.pc = "done", !.failed = TRUE,
                               !.calls = Append(@, p.offset)]
    ELSE LET next == p.offset + Len(page.items) IN
         [p EXCEPT !.calls = Append(@, p.offset),
                   !.items = @ \o page.items,
                   !.offset = next,
                   !.total = page.total,
                   !.pc = IF next >= page.total THEN "done" ELSE "fetch"]

\* The paginator after fetch_page(p.offset): it ends when the fetch fails
\* or returns no items; else it yields the items, advances the offset by
\* their number and ends when the offset has reached the total.
PaginatorAfter(p, fetched, page) ==
    IF ~fetched THEN [p EXCEPT !.pc = "done", !.failed = TRUE,
                               !.calls = Append(@, p.offset)]
    ELSE IF Len(page.items) = 0
         THEN [p EXCEPT !.pc = "done", !.total = page.total,
                        !.calls = Append(@, p.offset)]
    ELSE LET next == p.offset + Len(page.items) IN
         [p EXCEPT !.calls = Append(@, p.offset),
                   !.items = @ \o page.items,
                   !.offset = next,
                   !.total = page.total,
                   !.pc = IF next >= page.total THEN "done" ELSE "fetch"]

\* One pull of the next page: fetch_page(offset), that is api_with_retry
\* around the endpoint's call, returns Some(page) (fetched) or None.
PaginatorFetch(fetched) ==
    /\ pg.pc = "fetch"
    /\ Len(pg.calls) < MaxFetches
    /\ pg' = PaginatorAfter(pg, fetched, FetchPage(pg, pg.offset))
    /\ UNCHANGED <<client_config, ow, lk>>
    /\ UNCHANGED <<apivars, authvars>>

\* The WebApi as WebApi::default() leaves it, no thread running.
ApiAtRest ==
    /\ now = 0
    /\ advances = 0
    /\ overflow_checks = FALSE
    /\ token = NoToken
    /\ token_expiration = now
    /\ exp_src = 0
    /\ worker_channel = "None"
    /\ rx_open = TRUE
    /\ cmdq = <<>>
    /\ reply = [t \in TaskIds |-> NoReply]
    /\ task = [t \in TaskIds |-> IdleTask]
    /\ api = ApiInit
    /\ bg_pc = [c \in BgCallers |-> "run"]
    /\ ut = NoUpdate
    /\ rd = NoSnapshot

\* A paginated result over one of the collections, pulled to its end.
InitPages ==
    /\ ApiAtRest
    /\ cache_file = AbsentFile
    /\ auth = AuthReturned
    /\ lst = ListenerIdle
    /\ client_config = LoadedConfig(NoPort)
    /\ pg \in Paginators
    /\ ow = NoOverwrite
    /\ lk = NoLocks

NextPages == \E fetched \in BOOLEAN : PaginatorFetch(fetched)

SpecPages == InitPages /\ [][NextPages]_vars

\* ------------------------------------------------- SpecOverwrite
\* let mut remainder = ..; let replace_items = self.api_with_retry(..):
\* the replace request with the first chunk, and what follows from its
\* outcome.
OverwriteReplace(ok) ==
    /\ ow.pc = "replace"
    /\ LET tracks == [k \in 1 .. ow.n |-> k]
           remainder == split_remainder(tracks)
           sent == Request("replace",
                           playable_ids(first_chunk(tracks), ow.noid), ok)
       IN  ow' = [ow EXCEPT
                    !.requests = Append(@, sent),
                    !.remainder = remainder,
                    !.pc = IF ok /\ remainder.some THEN "append"
                           ELSE "done"]
    /\ UNCHANGED <<client_config, pg, lk>>
    /\ UNCHANGED <<apivars, authvars>>

\* One turn of while let Some(ref mut tracks) = remainder.clone(): the next
\* chunk is appended; a failure returns.
OverwriteAppend(ok) ==
    /\ ow.pc = "append"
    /\ LET tracks == ow.remainder.v
           remainder == split_remainder(tracks)
           sent == Request("append",
                           playable_ids(first_chunk(tracks), ow.noid), ok)
       IN  ow' = [ow EXCEPT
                    !.requests = Append(@, sent),
                    !.remainder = remainder,
                    !.pc = IF ok /\ remainder.some THEN "append"
                           ELSE "done"]
    /\ UNCHANGED <<client_config, pg, lk>>
    /\ UNCHANGED <<apivars, authvars>>

InitOverwrite ==
    /\ ApiAtRest
    /\ cache_file = AbsentFile
    /\ auth = AuthReturned
    /\ lst = ListenerIdle
    /\ client_config = LoadedConfig(NoPort)
    /\ pg = NoPages
    /\ lk = NoLocks
    /\ ow \in UNION {{NewOverwrite(n, noid) : noid \in NoIds(n)} :
                        n \in TrackCounts}

NextOverwrite ==
    \/ \E ok \in BOOLEAN : OverwriteReplace(ok)
    \/ \E ok \in BOOLEAN : OverwriteAppend(ok)

SpecOverwrite == InitOverwrite /\ [][NextOverwrite]_vars

\* ---------------------------------------------------------------- SpecLocks
\* lk with thread th at position p.
At(th, p) == [lk EXCEPT !.pc[th] = p]

\* A thread calls update_token.
UtCall(c) ==
    /\ lk.pc[c] = "idle"
    /\ NextLockTask # "none"
    /\ lk' = At(c, "read_expiration")
    /\ UNCHANGED <<client_config, pg, ow>>
    /\ UNCHANGED <<apivars, authvars>>

\* let token_expiration = self.token_expiration.read().unwrap(): granted
\* while no writer holds the lock.
UtReadExpiration(c) ==
    /\ lk.pc[c] = "read_expiration"
    /\ lk.expiration_w = "free"
    /\ lk' = [At(c, "check") EXCEPT !.expiration_r = @ \cup {c}]
    /\ UNCHANGED <<client_config, pg, ow>>
    /\ UNCHANGED <<apivars, authvars>>

\* if delta.num_seconds() > 60 * 5 { return None; } .. }: the guard is
\* dropped on both ways out of the block.
UtCheck(c, renew) ==
    /\ lk.pc[c] = "check"
    /\ lk' = [At(c, IF renew THEN "channel" ELSE "idle") EXCEPT
                 !.expiration_r = @ \ {c}]
    /\ UNCHANGED <<client_config, pg, ow>>
    /\ UNCHANGED <<apivars, authvars>>

\* self.worker_channel.read().unwrap(): nothing in src/ writes this lock.
UtReadChannel(c) ==
    /\ lk.pc[c] = "channel"
    /\ lk' = [At(c, "send") EXCEPT !.channel_r = @ \cup {c}]
    /\ UNCHANGED <<client_config, pg, ow>>
    /\ UNCHANGED <<apivars, authvars>>

\* channel.send(cmd).unwrap(); .. spawn_blocking(..), or the panic of the
\* else branch; the guard of worker_channel is dropped after either.
UtSend(c, wired) ==
    /\ lk.pc[c] = "send"
    /\ lk' = IF wired /\ NextLockTask # "none"
             THEN [At(c, "idle") EXCEPT !.channel_r = @ \ {c},
                                        !.pc[NextLockTask] = "recv"]
             ELSE [At(c, "panic") EXCEPT !.channel_r = @ \ {c}]
    /\ UNCHANGED <<client_config, pg, ow>>
    /\ UNCHANGED <<apivars, authvars>>

\* match token_rx.recv(): Ok(Some(token)) or anything else.
RtRecv(t, some) ==
    /\ lk.pc[t] = "recv"
    /\ lk' = At(t, IF some THEN "lock_token" ELSE "done")
    /\ UNCHANGED <<client_config, pg, ow>>
    /\ UNCHANGED <<apivars, authvars>>

\* api_token.lock().unwrap()
RtLockToken(t) ==
    /\ lk.pc[t] = "lock_token"
    /\ lk.token = "free"
    /\ lk' = [At(t, "store_token") EXCEPT !.token = t]
    /\ UNCHANGED <<client_config, pg, ow>>
    /\ UNCHANGED <<apivars, authvars>>

\* Mutant: the guard of the token is kept until the task ends.
RtStoreToken_KeepsLock(t) ==
    /\ lk.pc[t] = "store_token"
    /\ lk' = At(t, "lock_expiration")
    /\ UNCHANGED <<client_config, pg, ow>>
    /\ UNCHANGED <<apivars, authvars>>

\* *guard = Some(Token { .. }); the guard is a temporary of the statement.
RtStoreToken(t) ==
    /\ lk.pc[t] = "store_token"
    /\ lk' = [At(t, "lock_expiration") EXCEPT !.token = "free"]
    /\ UNCHANGED <<client_config, pg, ow>>
    /\ UNCHANGED <<apivars, authvars>>

\* api_token_expiration.write().unwrap(): granted while no one holds the
\* lock.
RtLockExpiration(t) ==
    /\ lk.pc[t] = "lock_expiration"
    /\ lk.expiration_w = "free"
    /\ lk.expiration_r = {}
    /\ lk' = [At(t, "store_expiration") EXCEPT !.expiration_w = t]
    /\ UNCHANGED <<client_config, pg, ow>>
    /\ UNCHANGED <<apivars, authvars>>

\* *guard = Utc::now() + ..; the guard is a temporary of the statement.
RtStoreExpiration(t) ==
    /\ lk.pc[t] = "store_expiration"
    /\ lk' = [At(t, "done") EXCEPT !.expiration_w = "free"]
    /\ UNCHANGED <<client_config, pg, ow>>
    /\ UNCHANGED <<apivars, authvars>>

\* A reader sets out to copy the token and its expiry, or the expiry only.
RdStart(r, first) ==
    /\ lk.pc[r] = "idle"
    /\ lk' = At(r, first)
    /\ UNCHANGED <<client_config, pg, ow>>
    /\ UNCHANGED <<apivars, authvars>>

\* token.lock()
RdLockToken(r) ==
    /\ lk.pc[r] = "lock_token"
    /\ lk.token = "free"
    /\ lk' = [At(r, "read_expiration") EXCEPT !.token = r]
    /\ UNCHANGED <<client_config, pg, ow>>
    /\ UNCHANGED <<apivars, authvars>>

\* token_expiration.read(), with or without the guard of the token
RdReadExpiration(r) ==
    /\ lk.pc[r] = "read_expiration"
    /\ lk.expiration_w = "free"
    /\ lk' = [At(r, "copy") EXCEPT !.expiration_r = @ \cup {r}]
    /\ UNCHANGED <<client_config, pg, ow>>
    /\ UNCHANGED <<apivars, authvars>>

\* The values are copied and the guards dropped.
RdCopy(r) ==
    /\ lk.pc[r] = "copy"
    /\ lk' = [At(r, "idle") EXCEPT
                 !.token = IF @ = r THEN "free" ELSE @,
                 !.expiration_r = @ \ {r}]
    /\ UNCHANGED <<client_config, pg, ow>>
    /\ UNCHANGED <<apivars, authvars>>

InitLocks ==
    /\ ApiAtRest
    /\ cache_file = AbsentFile
    /\ auth = AuthReturned
    /\ lst = ListenerIdle
    /\ client_config = LoadedConfig(NoPort)
    /\ pg = NoPages
    /\ ow = NoOverwrite
    /\ lk = FreeLocks

NextLocks ==
    \/ \E c \in LockCallers : UtCall(c)
    \/ \E c \in LockCallers : UtReadExpiration(c)
    \/ \E c \in LockCallers, renew \in BOOLEAN : UtCheck(c, renew)
    \/ \E c \in LockCallers : UtReadChannel(c)
    \/ \E c \in LockCallers, wired \in BOOLEAN : UtSend(c, wired)
    \/ \E t \in LockTasks, some \in BOOLEAN : RtRecv(t, some)
    \/ \E t \in LockTasks : RtLockToken(t)
    \/ \E t \in LockTasks : RtStoreToken(t)
    \/ \E t \in LockTasks : RtLockExpiration(t)
    \/ \E t \in LockTasks : RtStoreExpiration(t)
    \/ \E r \in LockReaders, first \in {"lock_token", "read_expiration"} :
          RdStart(r, first)
    \/ \E r \in LockReaders : RdLockToken(r)
    \/ \E r \in LockReaders : RdReadExpiration(r)
    \/ \E r \in LockReaders : RdCopy(r)

SpecLocks == InitLocks /\ [][NextLocks]_vars

\* ------------------------------------------------------- the setup wizard
\* run_setup_wizard gives up.
WizardFailed(e) == [WizardStart EXCEPT !.pc = "failed", !.err = e]

\* One turn of the loop of get_client_key_from_input, for the client id and
\* then for the client secret: a line is read, trimmed and validated.
ReadKey(read_ok, typed) ==
    /\ client_config.pc \in {"client_id", "client_secret"}
    /\ LET key == trim(typed \o <<"CRLF">>)
           verdict == validate_client_key(key)
           seen == [client_config EXCEPT !.last_key = key, !.last = verdict]
           tries == client_config.num_retries + 1
       IN  client_config' =
             IF ~read_ok THEN WizardFailed("Failed to read input")
             ELSE IF verdict.ok THEN
                IF client_config.pc = "client_id"
                THEN [seen EXCEPT !.pc = "client_secret", !.client_id = key,
                                  !.num_retries = 0]
                ELSE [seen EXCEPT !.pc = "port", !.client_secret = key,
                                  !.num_retries = 0]
             ELSE IF tries >= KEY_MAX_RETRIES
                  THEN [WizardFailed("Maximum retries exceeded")
                           EXCEPT !.last_key = key, !.last = verdict,
                                  !.num_retries = tries]
             ELSE [seen EXCEPT !.num_retries = tries]
    /\ UNCHANGED <<pg, ow, lk>>
    /\ UNCHANGED <<apivars, authvars>>

\* run_setup_wizard after the two keys: the port is read and parsed, the
\* configuration is written and kept.
ReadPort(read_ok, typed, write_ok) ==
    /\ client_config.pc = "port"
    /\ client_config' =
          IF ~read_ok THEN WizardFailed("Failed to read input")
          ELSE IF ~write_ok THEN WizardFailed("Failed to create config file")
          ELSE [client_config EXCEPT !.pc = "loaded",
                                     !.port = SomePort(ParsedPort(typed))]
    /\ UNCHANGED <<pg, ow, lk>>
    /\ UNCHANGED <<apivars, authvars>>

InitSetup ==
    /\ ApiAtRest
    /\ cache_file = AbsentFile
    /\ auth = AuthReturned
    /\ lst = ListenerIdle
    /\ client_config = WizardStart
    /\ pg = NoPages
    /\ ow = NoOverwrite
    /\ lk = NoLocks

NextSetup ==
    \/ \E read_ok \in BOOLEAN, typed \in TypedKeys : ReadKey(read_ok, typed)
    \/ \E read_ok \in BOOLEAN, typed \in TypedPorts, write_ok \in BOOLEAN :
          ReadPort(read_ok, typed, write_ok)

SpecSetup == InitSetup /\ [][NextSetup]_vars

\* ================================================================= claims

\* C1: one api_with_retry call invokes the wrapped call at most MAX_RETRIES
\* times; a successful invocation ends the call at once with its value (no
\* later invocation); a call that returns after no success returns None.
C1_RetryBound ==
    /\ api.calls <= MAX_RETRIES
    /\ api.last.kind = "Ok" =>
          /\ api.pc = "done"
          /\ api.result = [some |-> TRUE, v |-> api.calls]
    /\ (api.pc = "done" /\ api.last.kind # "Ok") => api.result = NoResult

\* C1 witness: the third invocation is the first to succeed.
C1_Witness ==
    /\ api.pc = "done"
    /\ api.calls = MAX_RETRIES
    /\ api.result = [some |-> TRUE, v |-> MAX_RETRIES]

\* C2 (as claimed): once the refresh started for a 401 has failed, the
\* wrapped call is not invoked again.
C2_FailedRefreshStops == [][api.joined = "failed" => api'.calls = api.calls]_vars

\* C3: the invocations of one call are sequential (an invocation starts
\* only when the arm of the previous one has run to its end), a 401 sends
\* at most one RequestToken, and while the call is at the head of its loop
\* every refresh task it started has completed.
C3_SequentialRefresh ==
    /\ api.pc = "call" =>
          /\ api.calls = api.attempt
          /\ \A t \in Spawned : task[t].pc = "done"
    /\ api.pc \in {"sleep", "wait"} => api.calls = api.attempt + 1
    /\ api.pc = "wait" =>
          /\ api.handle \in Spawned
          /\ \A t \in Spawned \ {api.handle} : task[t].pc = "done"
    /\ api.sent <= api.n401
    /\ Cardinality(Spawned) = api.sent
    /\ Len(cmdq) <= 1

\* C3 witness: a 401, its refresh completed, then the next invocation.
C3_Witness ==
    /\ api.n401 = 1
    /\ api.sent = 1
    /\ api.calls = 2
    /\ api.last.kind = "Ok"

\* C4 (as claimed): a reader that copies the access token and the tracked
\* expiry sees both from the same refresh (or both from the constructor).
C4_ReaderSeesOnePair == rd.pc = "done" => rd.access_token = rd.exp_src

\* C5 (as claimed): when two refresh tasks have both installed their reply
\* and every task has finished, token and token_expiration come from the
\* same reply.
C5_LastWriterWins ==
    (/\ \A t \in Spawned : task[t].pc = "done"
     /\ Cardinality({t \in Spawned : task[t].ok}) >= 2)
    => token.access_token = exp_src

\* C6 (as claimed, for a wired worker channel): update_token returns None
\* and sends nothing when expiry minus now exceeds the margin, and sends
\* exactly one RequestToken otherwise.
C6_MarginAsClaimed ==
    (ut.called /\ ut.wired) =>
        IF ut.band \in {"fraction", "beyond"}
        THEN ut.ret = "None" /\ ut.sent = 0
        ELSE ut.sent = 1

\* C6 (amended): update_token returns None, sends nothing and leaves token
\* and token_expiration alone when expiry minus now is at least one full
\* second beyond the margin (301 s or more); when it is less (expired, at
\* most 300 s, or 300 s and a fraction) it sends exactly one RequestToken
\* if the worker channel is installed and open, and panics without sending
\* if it is not.  update_token itself never writes token or expiry.
C6_RenewalMargin ==
    /\ [](ut.called =>
            IF ut.band = "beyond"
            THEN ut.ret = "None" /\ ut.sent = 0
            ELSE IF ut.wired
                 THEN ut.ret = "Some" /\ ut.sent = 1
                 ELSE ut.ret = "panic" /\ ut.sent = 0)
    /\ [][ut' # ut =>
            /\ token' = token
            /\ token_expiration' = token_expiration
            /\ Len(cmdq') = Len(cmdq) + ut'.sent]_vars

\* C6 witness: a request sent 300 s and a fraction before the expiry.
C6_Witness ==
    /\ ut.called
    /\ ut.band = "fraction"
    /\ ut.ret = "Some"
    /\ Len(cmdq) = 1

\* C7: the step in which a refresh task learns that its refresh failed
\* leaves token and token_expiration as they are.
C7_FailedRefreshKeepsToken ==
    [][\A t \in TaskIds :
          (task[t].pc = "recv" /\ task'[t].pc = "done") =>
              (token' = token /\ token_expiration' = token_expiration)]_vars

\* C7 witness: a refresh answered with None has failed while a token is
\* installed.
C7_Witness ==
    /\ token.some
    /\ \E t \in TaskIds :
          task[t].pc = "done" /\ ~task[t].ok /\ reply[t].st = "none"

\* The failures api_with_retry does not retry.
IsFatal(c) ==
    \/ c.kind \in {"Http", "Client"}
    \/ c.kind = "Status" /\ c.status \notin ({429, 401} \cup (502 .. 504))

\* C8: a failure that is neither 429, 401 nor 502..504 ends the call in the
\* step that receives it: the result is None, and that step neither sleeps
\* nor sends a RequestToken; the call is over, so nothing follows.
C8_FatalStopsAtOnce ==
    /\ [](IsFatal(api.last) =>
            /\ api.pc = "done"
            /\ api.result = NoResult
            /\ api.slept = 0)
    /\ [][IsFatal(api'.last) =>
            /\ cmdq' = cmdq
            /\ task' = task
            /\ api'.sent = api.sent
            /\ api'.sleeps = api.sleeps
            /\ api'.calls <= api.calls + 1]_vars

\* C8 witness: a fatal failure of the second invocation, after one retry.
C8_Witness ==
    /\ IsFatal(api.last)
    /\ api.calls = 2
    /\ api.sleeps = 1

\* C9: a 502, 503 or 504 received at attempt a (0, 1 or 2) is followed by
\* a sleep of min(2^a, 60) seconds, that is 1, 2 or 4.
C9_ServerErrorBackoff ==
    (api.last.kind = "Status" /\ api.last.status \in 502 .. 504) =>
        /\ api.last.a \in 0 .. MAX_RETRIES - 1
        /\ api.last.b = Min(2 ^ api.last.a, 60)
        /\ api.last.b = CASE api.last.a = 0 -> 1
                          [] api.last.a = 1 -> 2
                          [] OTHER -> 4
        /\ api.pc # "sleep" => api.slept = api.last.b

\* C9 witness: 4 seconds slept after a 503 at attempt 2.
C9_Witness ==
    /\ api.last.status = 503
    /\ api.last.a = 2
    /\ api.slept = 4

\* The 429 arithmetic (r + j) * 2^a does not fit the unsigned word.
Wraps(c) == (c.r + c.j) * 2 ^ c.a >= 2 ^ WordBits

\* C10 (as claimed, where the arithmetic does not overflow): the backoff b
\* of a 429 lies between r and (r + 3) * 2^a capped at 60.
C10_BoundsAsClaimed ==
    (api.last.status = 429 /\ api.pc # "panic" /\ ~Wraps(api.last)) =>
        /\ api.last.b >= api.last.r
        /\ api.last.b <= Min((api.last.r + 3) * 2 ^ api.last.a, 60)

\* C10 (amended): b <= (r + 3) * 2^a capped at 60 always; b >= min(r, 60)
\* when (r + j) * 2^a fits the word; when it does not, a build with
\* overflow checks panics before any sleep and a build without them sleeps
\* a wrapped value.
C10_RateLimitBounds ==
    api.last.status = 429 =>
        /\ api.last.b <= Min((api.last.r + 3) * 2 ^ api.last.a, 60)
        /\ ~Wraps(api.last) =>
              /\ api.pc # "panic"
              /\ api.last.b >= Min(api.last.r, 60)
        /\ (Wraps(api.last) /\ overflow_checks) =>
              api.pc = "panic" /\ api.slept = 0
        /\ api.pc = "panic" => Wraps(api.last) /\ overflow_checks

\* C10 witness: Retry-After 61 answered with the capped backoff of 60 s.
C10_Witness ==
    /\ api.last.status = 429
    /\ api.last.r = 61
    /\ api.last.b = 60
    /\ api.slept = 60

\* C11: the URL the listener returns for a request with a request target
\* and a Host header is "http://", then the whole value of the Host header
\* (host and port), then the request target; for the request line
\* `GET /callback?code=ABC123 HTTP/1.1` with `Host: 127.0.0.1:8888` it is
\* `http://127.0.0.1:8888/callback?code=ABC123`.
C11_UrlFromHostHeader ==
    (lst.pc = "returned" /\ lst.ok /\ lst.last.path # "" /\ lst.last.host # <<>>)
        => lst.url = <<"http://">> \o lst.last.host \o <<lst.last.path>>

\* C12: once bound, the listener returns Ok(url) only for an accepted
\* connection whose request has a method and a path token, with the 200
\* answer, or Err on an accept error; every connection before the one that
\* ends it got the 400 answer (none when it could not be read); a bind
\* failure returns its own error before any connection is accepted.
C12_ListenerReturns ==
    /\ lst.pc = "returned" =>
          \/ /\ lst.ok
             /\ lst.accepted >= 1
             /\ lst.last.method /\ lst.last.path # ""
             /\ lst.answers[Len(lst.answers)] = "200 OK"
          \/ /\ ~lst.ok
             /\ lst.err = "Connection error"
          \/ /\ ~lst.ok
             /\ lst.err = "Failed to bind to port"
             /\ lst.accepted = 0
    /\ Len(lst.answers) = lst.accepted
    /\ \A i \in 1 .. Len(lst.answers) :
          (i < Len(lst.answers) \/ ~lst.ok)
              => lst.answers[i] \in {"400 Bad Request", "none"}

C14_ExpiredRefreshOnce ==
    auth.cached = "expired" =>
        /\ auth.refreshes <= 1
        /\ auth.pc # "refresh" => auth.refreshes = 1
        /\ auth.refresh_ok =>
              /\ auth.flows = 0 /\ auth.listeners = 0 /\ auth.exchanges = 0
              /\ auth.manual = 0 /\ auth.urls = 0
              /\ auth.saves = 1
              /\ auth.access_token = auth.minted
              /\ \/ /\ auth.written = 1
                    /\ cache_file = TokenFile(auth.access_token, FALSE)
                    /\ auth.pc \in {"librespot", "done", "failed", "panic"}
                 \/ /\ auth.written = 0
                    /\ cache_file = TokenFile(0, TRUE)
                    /\ auth.pc = "failed" /\ auth.err = "Write error"
        /\ (auth.refreshes = 1 /\ ~auth.refresh_ok) =>
              /\ auth.pc = "oauth" \/ auth.flows = 1
              /\ auth.exchanges = 0 => auth.saves = 0

C14_Witness ==
    /\ auth.cached = "expired"
    /\ auth.refreshes = 1 /\ auth.refresh_ok
    /\ auth.written = 1
    /\ cache_file = TokenFile(1, FALSE)
    /\ auth.pc = "done"

\* C15: a cache file that is missing, unreadable or unparseable does not
\* end authenticate: no token is installed, no refresh is tried, and the
\* OAuth flow is the next thing that runs.
C15_CacheNeverFatal ==
    auth.cached \in {"absent", "unreadable", "unparseable"} =>
        /\ auth.refreshes = 0
        /\ auth.pc = "oauth" \/ auth.flows = 1
        /\ auth.pc = "oauth" => ~auth.token /\ auth.err = ""
        /\ auth.exchanges = 0 => ~auth.token

C15_Witness ==
    /\ auth.cached = "unparseable"
    /\ auth.flows = 1
    /\ auth.exchange_ok
    /\ auth.pc = "done"

\* C16: when the listener returns an error the flow enters the manual flow
\* once, and from there exchanges the code at most once and writes the
\* token once after a successful exchange; the flow never fails with the
\* listener's error.
C16_ListenerFallback ==
    /\ (auth.listeners = 1 /\ auth.pc # "listen"
            /\ lst.pc = "returned" /\ ~lst.ok) => auth.manual = 1
    /\ auth.manual = 1 =>
          /\ lst.pc = "returned" /\ ~lst.ok
          /\ auth.exchanges <= 1
          /\ auth.exchange_ok => auth.saves = 1
          /\ auth.written = 1 =>
                cache_file = TokenFile(auth.access_token, FALSE)
          /\ auth.pc \in {"manual", "exchange", "librespot", "done",
                          "failed", "panic"}
          /\ auth.pc = "failed" =>
                auth.err \in {"Failed to get auth URL",
                              "Failed to read input",
                              "Failed to parse authorization code from input URL",
                              "Token request failed", "Write error",
                              "OAuth error"}
          /\ (auth.pc = "failed" /\ auth.err = "OAuth error") =>
                auth.written = 1

C16_Witness ==
    /\ lst.err = "Failed to bind to port"
    /\ auth.manual = 1
    /\ auth.exchange_ok
    /\ auth.written = 1
    /\ auth.pc = "done"

\* C17: after a failed code-for-token exchange authenticate has returned an
\* error: one exchange, one OAuth flow, no write of the cache file, and the
\* manual flow was entered only if the listener had failed before.
C17_ExchangeFailureTerminal ==
    (auth.exchanges >= 1 /\ ~auth.exchange_ok) =>
        /\ auth.pc = "failed" /\ auth.err = "Token request failed"
        /\ auth.exchanges = 1 /\ auth.flows = 1 /\ auth.listeners = 1
        /\ auth.saves = 0 /\ auth.written = 0
        /\ cache_file \in CacheFiles
        /\ auth.manual = IF lst.ok THEN 0 ELSE 1
        /\ auth.librespot = "none"

C17_Witness ==
    /\ auth.exchanges = 1 /\ ~auth.exchange_ok
    /\ auth.pc = "failed"
    /\ auth.manual = 0
    /\ lst.ok

\* C18: once a refresh task started by update_token has installed a new
\* token, the cache file holds that token.
C18_CacheFollowsRefresh ==
    (\E t \in TaskIds : task[t].ok /\ task[t].pc = "done")
        => cache_file = TokenFile(token.access_token, FALSE)

\* C19: no thread reaches a panic: not the caller of api_with_retry, not
\* another caller of update_token, not authenticate.
C19_NoPanic ==
    /\ api.pc # "panic"
    /\ \A c \in BgCallers : bg_pc[c] # "panic"
    /\ auth.pc # "panic"

\* C20 as claimed: with worker_channel None, update_token panics when the
\* expiry is at most the 5-minute margin ahead, and returns None when it is
\* more than the margin ahead.
C20_MissingChannelAsClaimed ==
    (ut.called /\ worker_channel = "None") =>
        IF ut.band \in {"expired", "within"}
        THEN ut.ret = "panic"
        ELSE ut.ret = "None"

\* C20 (amended): with worker_channel None, update_token panics, without
\* sending anything, when expiry minus now is less than 301 s (expired, at
\* most 300 s, or 300 s and a fraction), and returns None when it is 301 s
\* or more; while the channel is None no step changes token or
\* token_expiration, and a caller that panicked does nothing more.
C20_MissingChannel ==
    /\ []((ut.called /\ worker_channel = "None") =>
            /\ ut.ret = (IF ut.band = "beyond" THEN "None" ELSE "panic")
            /\ ~ut.wired /\ ut.sent = 0
            /\ cmdq = <<>> /\ Spawned = {}
            /\ exp_src = 0
            /\ (\E c \in BgCallers : bg_pc[c] = "panic") \/ api.pc = "panic"
                   \/ ut.ret = "None")
    /\ [][worker_channel = "None" =>
            /\ token' = token
            /\ token_expiration' = token_expiration
            /\ \A c \in BgCallers :
                  /\ bg_pc[c] = "panic" => bg_pc'[c] = "panic"
                  /\ (bg_pc[c] = "run" /\ bg_pc'[c] = "panic")
                        => ~RenewalNotNeeded(token_expiration, now)]_vars

\* C20 witness: a panic of update_token 300 s and a fraction before expiry.
C20_Witness ==
    /\ ut.called /\ worker_channel = "None"
    /\ ut.ret = "panic"
    /\ ut.band = "fraction"
    /\ \E c \in BgCallers : bg_pc[c] = "panic"

\* C21: a paginator whose first page reports total 0 or has no items (or
\* whose first fetch fails) yields nothing and calls fetch_page once, at
\* offset 0; in general no fetch follows a page without items, whatever
\* total it reports, and a paginator that ended without a failure has
\* reached the total or met a page without items.
C21_EmptyFirstPage ==
    /\ (pg.calls # <<>>
          /\ (FetchPage(pg, 0).total = 0 \/ Len(FetchPage(pg, 0).items) = 0))
        => (pg.pc = "done" /\ pg.items = <<>> /\ pg.calls = <<0>>)
    /\ \A i \in 1 .. Len(pg.calls) - 1 :
          Len(FetchPage(pg, pg.calls[i]).items) > 0
    /\ (pg.pc = "done" /\ ~pg.failed) =>
          \/ pg.offset >= pg.total
          \/ /\ Len(FetchPage(pg, pg.offset).items) = 0
             /\ pg.calls[Len(pg.calls)] = pg.offset

\* C21 witness: an empty first page with an inflated total.
C21_Witness ==
    /\ pg.pc = "done" /\ ~pg.failed
    /\ pg.n = 0 /\ pg.inflate > 0
    /\ pg.total > pg.offset
    /\ pg.calls = <<0>>
    /\ pg.items = <<>>

\* The number of a yielded item.
ItemId(x) == IF pg.endpoint = "tracks" THEN x.id ELSE x

\* C22: fetch_page is called at offset 0 first and then at the previous
\* offset plus the number of items the previous page returned; when every
\* item is usable and the total is right the items yielded are the
\* collection's, in order; over 250 tracks (page size 100) the offsets are
\* 0, 100, 200.
C22_OffsetsAndOrder ==
    /\ pg.calls # <<>> => pg.calls[1] = 0
    /\ \A i \in 2 .. Len(pg.calls) :
          pg.calls[i] =
             pg.calls[i - 1] + Len(FetchPage(pg, pg.calls[i - 1]).items)
    /\ (pg.pc = "done" /\ ~pg.failed /\ pg.bad = {} /\ pg.inflate = 0) =>
          /\ Len(pg.items) = pg.n
          /\ \A k \in 1 .. Len(pg.items) : ItemId(pg.items[k]) = k - 1
          /\ pg.endpoint = "tracks" =>
                \A k \in 1 .. Len(pg.items) : pg.items[k].list_index = k - 1
    /\ (pg.pc = "done" /\ ~pg.failed /\ pg.bad = {} /\ pg.inflate = 0
          /\ pg.endpoint = "tracks" /\ pg.n = 250) =>
          pg.calls = <<0, 100, 200>>

C22_Witness ==
    /\ pg.pc = "done" /\ ~pg.failed
    /\ pg.endpoint = "tracks" /\ pg.n = 250
    /\ pg.bad = {} /\ pg.inflate = 0
    /\ pg.calls = <<0, 100, 200>>
    /\ Len(pg.items) = 250

\* C24: validate_client_key accepts a key exactly when it has 32 characters,
\* all of them ASCII hex digits; every other key (empty, of another length,
\* with another character) is rejected with an error.
C24_ValidateClientKey ==
    client_config.last # NoVerdict =>
       /\ client_config.last.ok <=>
             /\ Len(client_config.last_key) = EXPECTED_LEN
             /\ \A i \in 1 .. Len(client_config.last_key) :
                   client_config.last_key[i] \in HexDigits
       /\ ~client_config.last.ok => client_config.last.err # ""
       /\ client_config.last.ok => client_config.last.err = ""
       /\ client_config.last_key = <<>> => ~client_config.last.ok

\* C24 witness: after an accepted client id, a key of 32 bytes is rejected
\* for one of its characters.
C24_Witness ==
    /\ client_config.pc = "client_secret"
    /\ client_config.client_id = ValidTestKey
    /\ ~client_config.last.ok
    /\ len(client_config.last_key) = EXPECTED_LEN
    /\ \E i \in 1 .. Len(client_config.last_key) :
          client_config.last_key[i] \notin HexDigits

\* C23: the redirect URI is http://127.0.0.1:<port>/callback with the
\* configured port, or 8888 when none is configured, and the callback
\* listener is started on that same port.
C23_RedirectPort ==
    LET port == IF client_config.port = NoPort THEN 8888
                ELSE client_config.port.v
    IN  /\ auth.pc \notin {"idle", "start"} =>
             auth.redirect_uri =
                <<"http://", "127.0.0.1", ":", ToString(port), "/callback">>
        /\ lst.pc # "idle" =>
             /\ lst.port = port
             /\ auth.redirect_uri[4] = ToString(lst.port)

\* C23 witness: a listener waiting on a configured port other than 8888.
C23_Witness ==
    /\ lst.pc = "accept"
    /\ client_config.port = SomePort(9000)
    /\ lst.port = 9000
    /\ auth.redirect_uri[4] = "9000"

\* C25: the wait for the callback is bounded: an authenticate whose
\* listener waits for its first connection reaches a terminal state, unless
\* a connection arrives. (Does not hold: the listener waits in
\* listener.incoming() with no timeout.)
C25_BoundedWait ==
    (auth.pc = "listen" /\ lst.pc = "accept" /\ lst.accepted = 0)
       ~> (auth.pc \in {"done", "failed", "panic"} \/ lst.accepted > 0)

\* C26: a 429 at attempt a is followed by a sleep of exactly
\* min((r + j) * 2^a, 60) seconds, for every parseable Retry-After r, with
\* no overflow and no wrap-around. (Does not hold: r + j and the product
\* are computed in the unsigned word before the cap.)
C26_ExactBackoff ==
    api.last.status = 429 =>
        /\ api.pc # "panic"
        /\ api.last.b =
              Min((api.last.r + api.last.j) * 2 ^ api.last.a, 60)

\* Every 401 of this call started a refresh, and every refresh succeeded.
RefreshesSucceeded ==
    /\ api.n401 >= 1
    /\ api.sent = api.n401
    /\ api.pc # "wait"
    /\ \A t \in Spawned : task[t].pc = "done" /\ task[t].ok

\* C27: a 401 answered by a successful refresh does not advance the
\* backoff: a later 502..504 sleeps 2^(number of sleeps before it), and a
\* call that gives up after a 429 or 5xx has made MAX_RETRIES invocations
\* besides the ones answered 401. (Does not hold: the 401 arm increments
\* attempt.)
C27_RefreshKeepsBackoff ==
    RefreshesSucceeded =>
        /\ (api.pc = "sleep" /\ api.last.status \in 502 .. 504) =>
              api.last.b = Min(2 ^ api.sleeps, 60)
        /\ (api.pc = "done" /\ ~api.result.some
              /\ api.last.status \in {429} \cup 502 .. 504) =>
              api.calls - api.n401 = MAX_RETRIES

\* C28: every backoff sleep is followed by another invocation of the
\* wrapped call. (Does not hold: the sleep of the last attempt is followed
\* by the end of the loop and None.)
C28_SleepThenRetry ==
    [][(api.pc = "sleep" /\ api'.pc # "sleep") => api'.pc = "call"]_vars

\* The OAuth flows of librespot_oauth this authenticate has run to their
\* end: create_librespot_credentials returned an access token.
LibrespotFlows ==
    IF auth.pc = "done" /\ auth.librespot = "oauth" THEN 1 ELSE 0

\* C29 (as claimed): one authenticate starts at most one callback listener,
\* makes at most one code-for-token exchange and writes the cache file at
\* most once, the OAuth flow for the librespot credentials included.
C29_AtMostOnceAsClaimed ==
    /\ auth.listeners + LibrespotFlows <= 1
    /\ auth.exchanges + LibrespotFlows <= 1
    /\ auth.saves <= 1
    /\ auth.written <= 1

\* C29 (amended): one authenticate enters perform_oauth_flow at most once,
\* starts the listener of redirect_uri_web_server at most once, calls
\* request_token at most once and writes the token cache file at most once;
\* the OAuth flow for the librespot credentials comes on top of these, at
\* most once, as the last step.
C29_AtMostOnce ==
    /\ auth.flows <= 1
    /\ auth.listeners <= 1
    /\ auth.exchanges <= 1
    /\ auth.saves <= 1
    /\ auth.written <= 1
    /\ auth.librespot = "oauth" => auth.pc \in {"done", "failed"}

\* C29 witness: the manual fallback after a failed listener exchanged the
\* code and saved the token, and the librespot credentials came from a
\* second OAuth flow.
C29_Witness ==
    /\ auth.pc = "done"
    /\ auth.listeners = 1
    /\ auth.manual = 1
    /\ auth.exchanges = 1
    /\ auth.written = 1
    /\ auth.librespot = "oauth"

\* C30 (as claimed): a refresh task whose reply sender was dropped without
\* a value stays in recv(), and the api_with_retry call that waits for it
\* stays in block_on, for ever.
C30_BlocksForever ==
    [][/\ \A t \in TaskIds :
             (task[t].pc = "recv" /\ reply[t].st = "closed")
                => task'[t].pc = "recv"
       /\ (api.pc = "wait" /\ reply[api.handle].st = "closed")
             => api'.pc = "wait"]_vars

\* C30 (amended): when the reply sender is dropped without a value, recv()
\* returns an error: the refresh task can take its step, which ends it
\* without a token and leaves token and expiry as they were; the
\* api_with_retry call that waits for it can then go on, and goes on to the
\* next attempt.
C30_ClosedReplyEndsWait ==
    /\ [](\A t \in TaskIds :
             (task[t].pc = "recv" /\ reply[t].st = "closed")
                => ENABLED TaskRecv(t))
    /\ []((api.pc = "wait" /\ task[api.handle].pc = "done")
             => ENABLED ApiJoin)
    /\ [][/\ \A t \in TaskIds :
                (task[t].pc = "recv" /\ reply[t].st = "closed"
                   /\ task'[t] # task[t])
                   => /\ task'[t].pc = "done"
                      /\ ~task'[t].ok
                      /\ token' = token
                      /\ token_expiration' = token_expiration
          /\ (api.pc = "wait" /\ reply[api.handle].st = "closed"
                /\ api'.pc # "wait")
                => /\ task[api.handle].pc = "done"
                   /\ api'.joined = "failed"
                   /\ api'.attempt = api.attempt + 1
                   /\ api'.pc = LoopHead(api.attempt + 1)]_vars

\* C30 witness: the call goes on after a refresh whose reply sender was
\* dropped.
C30_Witness ==
    /\ api.pc = "call"
    /\ api.attempt = 1
    /\ api.joined = "failed"
    /\ api.handle \in TaskIds
    /\ reply[api.handle].st = "closed"
    /\ task[api.handle].pc = "done"

\* C31 (as claimed): a 401 received while the tracked expiry is more than
\* the margin ahead sends nothing to the worker, is not retried and makes
\* the call return None.
C31_ValidTokenAsClaimed ==
    (api.last.status = 401 /\ ut.band \in {"fraction", "beyond"}) =>
        /\ ut.sent = 0
        /\ api.pc = "done"
        /\ ~api.result.some

\* C31 (amended): a 401 received while the tracked expiry is at least one
\* full second beyond the margin (301 s or more ahead) sends nothing to the
\* worker, starts no refresh task, is the last invocation and makes the
\* call return None with the error "Token refresh failed"; a client built
\* by with_authenticated_client is in that case for its first hour less
\* 301 s.
C31_ValidTokenStops ==
    /\ (api.last.status = 401 /\ ut.band = "beyond") =>
          /\ ut.ret = "None"
          /\ ut.sent = 0
          /\ api.sent = api.n401 - 1
          /\ api.pc = "done"
          /\ ~api.result.some
          /\ api.last_error = "Token refresh failed"
    /\ (api.last.status = 401 /\ exp_src = 0 /\ token = InstalledToken
          /\ now + Secs(RENEW_MARGIN_SECS + 1)
                <= Secs(AUTH_CLIENT_LIFETIME_SECS)) =>
          /\ Spawned = {}
          /\ cmdq = <<>>
          /\ api.pc = "done"
          /\ api.n401 = 1
          /\ ~api.result.some

\* C31 witness: the first invocation of a client built by
\* with_authenticated_client is answered 401 and the call has returned None.
C31_Witness ==
    /\ token = InstalledToken
    /\ token_expiration = Secs(AUTH_CLIENT_LIFETIME_SECS)
    /\ api.last.status = 401
    /\ ut.band = "beyond"
    /\ api.calls = 1
    /\ api.pc = "done"
    /\ cmdq = <<>>

\* C32: as long as no invocation of the call was answered 401, the shared
\* token and the tracked expiry are the constructor's, no refresh task was
\* started and nothing was sent to the worker; token and expiry differ from
\* the constructor's only after a refresh task started for a 401 got a
\* token.
C32_FrameWithout401 ==
    /\ api.n401 = 0 =>
          /\ <<token, token_expiration>> \in
                {<<NoToken, 0>>,
                 <<InstalledToken, Secs(AUTH_CLIENT_LIFETIME_SECS)>>}
          /\ exp_src = 0
          /\ cmdq = <<>>
          /\ Spawned = {}
          /\ ~ut.called
    /\ (token \notin {NoToken, InstalledToken} \/ exp_src # 0) =>
          /\ api.n401 >= 1
          /\ \E t \in Spawned : task[t].ok /\ reply[t].st = "some"

\* C32 witness: a call that has returned None after three invocations
\* answered 429 or 5xx, with the worker channel installed and nothing sent.
C32_Witness ==
    /\ api.pc = "done"
    /\ ~api.result.some
    /\ api.calls = MAX_RETRIES
    /\ api.sleeps = MAX_RETRIES
    /\ api.n401 = 0
    /\ worker_channel = "Some"
    /\ token = NoToken
    /\ cmdq = <<>>

\* C33: every Playable of user_playlist_tracks carries as list_index the
\* position of its item in the remote playlist, so that delete_tracks
\* sends the true positions. (Does not hold: the index is counted after the
\* unusable items of the page were dropped.)
C33_ListIndexIsPosition ==
    pg.endpoint = "tracks" =>
        \A k \in 1 .. Len(pg.items) :
            positions(pg.items)[k] = pg.items[k].id

\* The i-th run of at most 100 of the tracks 1 .. n.
ChunkOf(i) ==
    [k \in 1 .. (Min(100 * i, ow.n) - 100 * (i - 1)) |-> 100 * (i - 1) + k]

\* The requests of overwrite_playlist in number and kind: a replace first,
\* appends after it, max(1, ceil(n / 100)) requests when all succeed, none
\* after a failed one.
RequestsInTurn ==
    /\ \A i \in 1 .. Len(ow.requests) :
          /\ ow.requests[i].kind = IF i = 1 THEN "replace" ELSE "append"
          /\ Len(ow.requests[i].ids) <= 100
          /\ i < Len(ow.requests) => ow.requests[i].ok
    /\ Len(ow.requests) <= (IF ow.n = 0 THEN 1 ELSE (ow.n + 99) \div 100)
    /\ (ow.pc = "done" /\ \A i \in 1 .. Len(ow.requests) : ow.requests[i].ok)
          => Len(ow.requests) = IF ow.n = 0 THEN 1 ELSE (ow.n + 99) \div 100
    /\ (ow.requests # <<>> /\ ~ow.requests[Len(ow.requests)].ok)
          => ow.pc = "done"

\* C34 (as claimed): the replace request carries the first min(n, 100)
\* tracks and the appends the following ones in chunks of at most 100, in
\* order, each track exactly once.
C34_EveryTrackSent ==
    /\ RequestsInTurn
    /\ \A i \in 1 .. Len(ow.requests) : ow.requests[i].ids = ChunkOf(i)

\* C34 (amended): the i-th request is formed from the i-th run of at most
\* 100 tracks and carries, in order and once each, those of them that
\* convert into a PlayableId; the others are left out of it.
C34_ChunkedOverwrite ==
    /\ RequestsInTurn
    /\ \A i \in 1 .. Len(ow.requests) :
          /\ \A k \in 1 .. Len(ow.requests[i].ids) :
                /\ ow.requests[i].ids[k] \in 100 * (i - 1) + 1 .. 100 * i
                /\ ow.requests[i].ids[k] \in 1 .. ow.n
                /\ ow.requests[i].ids[k] \notin ow.noid
                /\ k > 1 => ow.requests[i].ids[k - 1] < ow.requests[i].ids[k]
          /\ \A t \in 1 .. ow.n :
                (t \in 100 * (i - 1) + 1 .. 100 * i /\ t \notin ow.noid)
                   => \E k \in 1 .. Len(ow.requests[i].ids) :
                         ow.requests[i].ids[k] = t

\* C34 witness: 250 tracks, the first of them without an id, saved with one
\* replace and two appends.
C34_Witness ==
    /\ ow.pc = "done"
    /\ ow.n = 250
    /\ ow.noid = {1}
    /\ Len(ow.requests) = 3
    /\ \A i \in 1 .. 3 : ow.requests[i].ok
    /\ Len(ow.requests[1].ids) = 99
    /\ Len(ow.requests[2].ids) = 100
    /\ Len(ow.requests[3].ids) = 50

\* The threads a thread waits for: the holder of the token it wants, the
\* writer of the expiry it wants to read (and, where the lock prefers
\* writers, the tasks queued for writing), the writer and the readers of
\* the expiry it wants to write.
WaitsOn(th) ==
    CASE lk.pc[th] = "lock_token" ->
            IF lk.token = "free" THEN {} ELSE {lk.token}
      [] lk.pc[th] = "read_expiration" ->
            IF lk.expiration_w # "free" THEN {lk.expiration_w}
            ELSE IF lk.expiration_r = {}
                 THEN {}
                 ELSE {t \in LockTasks : lk.pc[t] = "lock_expiration"}
      [] lk.pc[th] = "lock_expiration" ->
            (IF lk.expiration_w = "free" THEN {} ELSE {lk.expiration_w})
               \cup (lk.expiration_r \ {th})
      [] OTHER -> {}

\* Every thread of S waits for a lock held (or queued for) inside S.
Knot(S) ==
    /\ S # {}
    /\ \A th \in S : WaitsOn(th) # {} /\ WaitsOn(th) \subseteq S

\* C35: no set of threads waits for locks in a circle; a lock is held only
\* by a thread about to release it: update_token holds no guard of the
\* expiry when it comes to the channel and the send, and a refresh task
\* holds the token only while it stores the token and the expiry only
\* while it stores the expiry, never both.
C35_NoLockDeadlock ==
    /\ \A S \in SUBSET LockThreads : ~Knot(S)
    /\ \A c \in LockCallers :
          /\ lk.pc[c] \in {"channel", "send"} => c \notin lk.expiration_r
          /\ c \in lk.expiration_r => lk.pc[c] = "check"
          /\ lk.token # c /\ lk.expiration_w # c
    /\ \A t \in LockTasks :
          /\ lk.token = t <=> lk.pc[t] = "store_token"
          /\ lk.expiration_w = t <=> lk.pc[t] = "store_expiration"
          /\ t \notin lk.expiration_r
    /\ \A r \in LockReaders :
          /\ lk.token = r => lk.pc[r] \in {"read_expiration", "copy"}
          /\ r \in lk.expiration_r <=> lk.pc[r] = "copy"
          /\ lk.expiration_w # r
    /\ lk.expiration_w # "free" => lk.expiration_r = {}

\* C35 witness: a reader that holds the token waits for the expiry, which a
\* refresh task is writing, while the other refresh task waits for the
\* token and a caller of update_token waits to read the expiry.
C35_Witness ==
    /\ lk.pc["rd"] = "read_expiration"
    /\ lk.token = "rd"
    /\ lk.expiration_w = "t1"
    /\ lk.pc["t2"] = "lock_token"
    /\ \E c \in LockCallers : lk.pc[c] = "read_expiration"

=============================================================================
